---- MODULE Spec2Model ----
(***************************************************************************)
(* A model of the Wi-SUN smart-meter receiver: the line parser             *)
(* (src/src/parser), the ECHONET Lite codec (src/src/echonet) and the      *)
(* client that drives the module over the serial line                      *)
(* (src/src/wisun_module/client.rs).                                       *)
(*                                                                         *)
(* Text.  A line is the sequence of its pieces between single spaces       *)
(* ("FAIL ER04" is <<"FAIL", "ER04">>, "  Channel:20" is                   *)
(* <<"", "", "Channel:20">>, the empty line is <<"">>), and a multi-line   *)
(* string is the sequence of its lines, so that split(' '), split('\n'),   *)
(* trim and strip_prefix are computed on the structure.  What happens      *)
(* inside one piece (hex digits, colons) is tabulated for the pieces the   *)
(* model uses.                                                             *)
(***************************************************************************)
EXTENDS Integers, Sequences, FiniteSets, TLC

VARIABLES
    pending_message,   \* WiSunModuleParser.pending_message; <<>> is None
    message_buffer,    \* WiSunClient.message_buffer
    address,           \* WiSunClient.address; NoAddress is None
    property_map,      \* WiSunClient.property_map; NoMap is None
    written,           \* commands written by the command function last called
    op,                \* the public operation in progress
    pc,                \* the wait the client is in, or "start", "idle", "aborted"
    phase,             \* "call": wait_fn entered; "loop": reading; "ret": wait_fn returned
    in_get_message,    \* TRUE inside get_message's own loop (after More or Err)
    scan_i,            \* scan's loop variable
    pan,               \* the PanDescBody scan returned to connect
    transaction_id,    \* the id get_properties drew
    ret,               \* what the last wait_fn call returned
    result,            \* what the last public call returned
    mod_lines,         \* lines of an EPANDESC block the module has still to send
    entry_buffer,      \* message_buffer as it was when the current wait_fn call began
    read_msgs,         \* messages get_message pushed during the current wait_fn call
    rx_log,            \* messages received since the last command was written
    read_error,        \* the error read_line returned last in the current wait, or "none"
    last_line,         \* the line given to the last add_line call
    parse_result,      \* what the last add_line call returned
    block_pos,         \* position of last_line in the module's EPANDESC block, 0 outside
    little_endian,     \* byte order of the host the program was built for
    port,              \* bytes the serial port has received and read() has not yet returned
    read_buffer,       \* ConnectionImpl.read_buffer
    txt,               \* read_line's txt: the bytes of the line collected so far
    sent_lines,        \* the lines whose bytes were sent to the port
    read_lines,        \* the strings the read_line calls have returned
    called,            \* the last call on the Buffer and what it returned
    sent_packet,       \* Some EchonetPacket given to dump, None when wire is a descriptor
    damage,            \* what happens to the dumped bytes before they are parsed
    wire,              \* the bytes dump returned, or a property-map descriptor
    parsed,            \* what EchonetPacket::parse or PropertyMap::parse returned
    reading,           \* what get_ip, get_power_consumption or
                       \* get_cumulative_electric_energy made of the MAC or the reply
    runs               \* two wait_fn calls side by side: what each started with, the
                       \* read_line results both were given, and what each returned

\* the serial connection; the client and parser specifications take lines as given and
\* leave it idle
serialVars == <<port, read_buffer, txt, sent_lines, read_lines, called>>

\* the codec taken on its own
codecVars == <<sent_packet, damage, wire, parsed, reading>>

vars == <<pending_message, message_buffer, address, property_map, written, op, pc,
          phase, in_get_message, scan_i, pan, transaction_id, ret, result, mod_lines,
          entry_buffer, read_msgs, rx_log, read_error, last_line, parse_result,
          block_pos, little_endian, serialVars, codecVars, runs>>

-----------------------------------------------------------------------------
(* Lines the module sends *)

Addr1 == "FE80:0000:0000:0000:1234:5678:90AB:CDEF"
Addr2 == "FE80:0000:0000:0000:1234:5678:1234:5678"

LineEmpty == <<"">>
LineOk == <<"OK">>
LineFail == <<"FAIL", "ER04">>
LineEcho == <<"SKVER">>
LineUnknown == <<"FOOBAR">>
LineEvent(hh) == <<"EVENT", hh, Addr1>>
LineEventParam(hh) == <<"EVENT", hh, Addr1, "02">>
LineEver == <<"EVER", "1.2.3">>
LineEpandesc == <<"EPANDESC">>
LineChannel == <<"", "", "Channel:20">>
LineChannelB == <<"", "", "Channel:2F">>
LineChannelPage == <<"", "", "Channel", "Page:09">>
LinePanId == <<"", "", "Pan", "ID:3077">>
LineAddr == <<"", "", "Addr:1234567890ABCDEF">>
LineLqi == <<"", "", "LQI:73">>
LinePairId == <<"", "", "PairID:01234567">>

\* the six lines the module sends after EPANDESC
PanDescLines(channel) ==
    <<channel, LineChannelPage, LinePanId, LineAddr, LineLqi, LinePairId>>

-----------------------------------------------------------------------------
(* Pieces: what the standard library does inside one piece *)

\* str::split(':') of one piece
ColonSplit(tok) ==
    CASE tok = "Channel:20" -> <<"Channel", "20">>
      [] tok = "Channel:2F" -> <<"Channel", "2F">>
      [] tok = "Page:09" -> <<"Page", "09">>
      [] tok = "ID:3077" -> <<"ID", "3077">>
      [] tok = "Addr:1234567890ABCDEF" -> <<"Addr", "1234567890ABCDEF">>
      [] tok = "LQI:73" -> <<"LQI", "73">>
      [] tok = "PairID:01234567" -> <<"PairID", "01234567">>
      [] tok = Addr1 -> <<"FE80", "0000", "0000", "0000", "1234", "5678", "90AB", "CDEF">>
      [] tok = Addr2 -> <<"FE80", "0000", "0000", "0000", "1234", "5678", "1234", "5678">>
      [] OTHER -> <<tok>>

\* the number a piece denotes in base 16, -1 when it is not a hex number
HexValue(tok) ==
    CASE tok = "20" -> 32
      [] tok = "2F" -> 47
      [] tok = "21" -> 33
      [] tok = "22" -> 34
      [] tok = "23" -> 35
      [] tok = "24" -> 36
      [] tok = "25" -> 37
      [] tok = "02" -> 2
      [] tok = "09" -> 9
      [] tok = "1" -> 1
      [] tok = "3077" -> 12407
      [] tok = "0E1A" -> 3610
      [] tok = "0001" -> 1
      [] tok = "0008" -> 8
      [] tok = "000E" -> 14
      [] tok = "0010" -> 16
      [] tok = "0012" -> 18
      [] tok = "0013" -> 19
      [] tok = "0018" -> 24
      [] tok = "001A" -> 26
      [] tok = "10000" -> 65536
      [] OTHER -> -1

\* u8::from_str_radix(tok, 16) and u16::from_str_radix(tok, 16); -1 is Err
FromStrRadixU8(tok) == IF HexValue(tok) > 255 THEN -1 ELSE HexValue(tok)
FromStrRadixU16(tok) == IF HexValue(tok) > 65535 THEN -1 ELSE HexValue(tok)

\* str::parse::<Ipv6Addr>() succeeds
IsIpv6(tok) == tok \in {Addr1, Addr2}

\* payloads of ERXUDP lines, as the hex text the module prints
HexMapAT1 == "1081000102880105FF0172019F0201E7"
HexMapBT1 == "1081000102880105FF0172019F0504D3E0E1E7"
HexEchoT1 == "1081000105FF0102880162019F00"
HexPowerT1 == "1081000102880105FF017201E7040000020E"
HexMapAT2 == "1081010002880105FF0172019F0201E7"
HexMapBT2 == "1081010002880105FF0172019F0504D3E0E1E7"
HexEchoT2 == "1081010005FF0102880162019F00"
HexPowerT2 == "1081010002880105FF017201E7040000020E"
HexNotify == "108100000EF0010EF0017301D50401028801"
HexMac == "1234567890ABCDEF"

\* hex::decode(tok); <<-1>> is Err
HexDecode(tok) ==
    CASE tok = HexMapAT1 -> <<16, 129, 0, 1, 2, 136, 1, 5, 255, 1, 114, 1, 159, 2, 1, 231>>
      [] tok = HexMapBT1 -> <<16, 129, 0, 1, 2, 136, 1, 5, 255, 1, 114, 1, 159, 5, 4, 211, 224, 225, 231>>
      [] tok = HexEchoT1 -> <<16, 129, 0, 1, 5, 255, 1, 2, 136, 1, 98, 1, 159, 0>>
      [] tok = HexPowerT1 -> <<16, 129, 0, 1, 2, 136, 1, 5, 255, 1, 114, 1, 231, 4, 0, 0, 2, 14>>
      [] tok = HexMapAT2 -> <<16, 129, 1, 0, 2, 136, 1, 5, 255, 1, 114, 1, 159, 2, 1, 231>>
      [] tok = HexMapBT2 -> <<16, 129, 1, 0, 2, 136, 1, 5, 255, 1, 114, 1, 159, 5, 4, 211, 224, 225, 231>>
      [] tok = HexEchoT2 -> <<16, 129, 1, 0, 5, 255, 1, 2, 136, 1, 98, 1, 159, 0>>
      [] tok = HexPowerT2 -> <<16, 129, 1, 0, 2, 136, 1, 5, 255, 1, 114, 1, 231, 4, 0, 0, 2, 14>>
      [] tok = HexNotify -> <<16, 129, 0, 0, 14, 240, 1, 14, 240, 1, 115, 1, 213, 4, 1, 2, 136, 1>>
      [] tok = HexMac -> <<18, 52, 86, 120, 144, 171, 205, 239>>
      [] OTHER -> <<-1>>

\* str::len() of a payload token: two characters for each byte of hex text, and the
\* length of the tokens that are no hex text
StrLen(tok) ==
    IF HexDecode(tok) # <<-1>> THEN 2 * Len(HexDecode(tok))
    ELSE CASE tok = "ZZ" -> 2
           [] tok = "108" -> 3
           [] OTHER -> 0

LineRxUdp(len, hex) ==
    <<"ERXUDP", Addr2, Addr1, "0E1A", "0E1A", "C0F9450040213077", "1", len, hex>>

-----------------------------------------------------------------------------
(* Strings *)

RECURSIVE StripLeading(_)
StripLeading(toks) ==
    IF toks # <<>> /\ Head(toks) = "" THEN StripLeading(Tail(toks)) ELSE toks

RECURSIVE StripTrailing(_)
StripTrailing(toks) ==
    IF toks # <<>> /\ toks[Len(toks)] = ""
    THEN StripTrailing(SubSeq(toks, 1, Len(toks) - 1))
    ELSE toks

\* str::trim() of a string given as pieces; the empty string is <<"">>
Trim(toks) ==
    LET NonEmpty(t) == IF t = <<>> THEN <<"">> ELSE t
    IN NonEmpty(StripTrailing(StripLeading(toks)))

\* the pieces of a multi-line string between spaces and newlines
RECURSIVE Flatten(_)
Flatten(data) == IF data = <<>> THEN <<>> ELSE Head(data) \o Flatten(Tail(data))

\* data.trim().split(&[' ', '\n']).map(|s| s.trim()).collect()
SplitParts(data) == Trim(Flatten(data))

\* l.split(':').map(|s| s.trim()).collect(): each part is again a string given as pieces
RECURSIVE SplitColon(_, _)
SplitColon(toks, open) ==
    IF toks = <<>> THEN <<Trim(open)>>
    ELSE LET Parts(c, first) ==
                 IF Len(c) = 1 THEN SplitColon(Tail(toks), first)
                 ELSE <<Trim(first)>>
                      \o [k \in 1..(Len(c) - 2) |-> <<c[k + 1]>>]
                      \o SplitColon(Tail(toks), <<c[Len(c)]>>)
             Piece(c) ==
                 Parts(c, IF open = <<>> THEN <<c[1]>> ELSE Append(open, c[1]))
         IN Piece(ColonSplit(Head(toks)))

-----------------------------------------------------------------------------
(* serial/buffer.rs, serial/port.rs: bytes are numbers, a string is its bytes *)

CR == 13
LF == 10

Buffer_new(buf_size) == [data |-> [i \in 1..buf_size |-> 0], pointer |-> 0, end |-> 0]

has_left(b) == b.pointer < b.end

\* a fill_buf that calls the reader whether or not bytes are left
fill_buf_overwrites(b, chunk) ==
    [ok |-> TRUE,
     buffer |-> [data |-> [i \in 1..Len(b.data) |->
                              IF i <= Len(chunk) THEN chunk[i] ELSE b.data[i]],
                 pointer |-> 0, end |-> Len(chunk)],
     num |-> Len(chunk), read |-> TRUE]

\* Buffer::fill_buf, where chunk is what reader.read(&mut self.data) would put at the
\* start of data; read tells whether the reader was called
fill_buf(b, chunk) ==
    IF has_left(b) THEN [ok |-> FALSE, buffer |-> b, num |-> 0, read |-> FALSE]
    ELSE [ok |-> TRUE,
          buffer |-> [data |-> [i \in 1..Len(b.data) |->
                                   IF i <= Len(chunk) THEN chunk[i] ELSE b.data[i]],
                      pointer |-> 0, end |-> Len(chunk)],
          num |-> Len(chunk), read |-> TRUE]

\* Buffer::read_to_lf: the bytes up to and with the first LF at or after pointer
read_to_lf(b) ==
    IF \E i \in b.pointer..(b.end - 1) : b.data[i + 1] = LF
    THEN LET Upto(i) == [some |-> TRUE, bin |-> SubSeq(b.data, b.pointer + 1, i + 1),
                         buffer |-> [b EXCEPT !.pointer = i + 1]]
         IN Upto(CHOOSE i \in b.pointer..(b.end - 1) :
                     /\ b.data[i + 1] = LF
                     /\ \A j \in b.pointer..(i - 1) : b.data[j + 1] # LF)
    ELSE [some |-> FALSE, bin |-> <<>>, buffer |-> b]

\* a get_remain that hands out the rest and leaves pointer where it was
get_remain_keeps_pointer(b) ==
    IF ~has_left(b) THEN [some |-> FALSE, bin |-> <<>>, buffer |-> b]
    ELSE [some |-> TRUE, bin |-> SubSeq(b.data, b.pointer + 1, b.end), buffer |-> b]

\* Buffer::get_remain
get_remain(b) ==
    IF ~has_left(b) THEN [some |-> FALSE, bin |-> <<>>, buffer |-> b]
    ELSE [some |-> TRUE, bin |-> SubSeq(b.data, b.pointer + 1, b.end),
          buffer |-> [b EXCEPT !.pointer = b.end]]

\* a trim_line_end that takes off the LF only
trim_line_end_lf_only(text_u8) ==
    IF text_u8 # <<>> /\ text_u8[Len(text_u8)] = LF
    THEN SubSeq(text_u8, 1, Len(text_u8) - 1)
    ELSE text_u8

RECURSIVE trim_line_end(_)
trim_line_end(text_u8) ==
    IF text_u8 # <<>> /\ text_u8[Len(text_u8)] \in {CR, LF}
    THEN trim_line_end(SubSeq(text_u8, 1, Len(text_u8) - 1))
    ELSE text_u8

\* one turn of read_line's loop with b the buffer and t the bytes in txt; chunk is what
\* the reader returns if it is called.  returned holds the line if read_line returns.
read_line_turn(b, t, chunk) ==
    LET Got(r, rest) ==
            IF r.some
            THEN [buffer |-> r.buffer, txt |-> <<>>,
                  returned |-> <<trim_line_end(t \o r.bin)>>]
            ELSE [buffer |-> rest.buffer, txt |-> t \o rest.bin, returned |-> <<>>]
        Scan(buf) == Got(read_to_lf(buf), get_remain(read_to_lf(buf).buffer))
        Filled(f) ==
            IF f.num = 0 THEN [buffer |-> f.buffer, txt |-> t, returned |-> <<>>]
            ELSE Scan(f.buffer)
    IN IF has_left(b) THEN Scan(b) ELSE Filled(fill_buf(b, chunk))

\* what a call on the Buffer returned: ok is Ok or Some, err the BufError, num the count
\* fill_buf returns, bin the slice read_to_lf and get_remain return, read whether the
\* reader was called
NoCall == [fn |-> "none", ok |-> FALSE, err |-> "", num |-> 0, bin |-> <<>>, read |-> FALSE]

InitSerial ==
    /\ port = <<>>
    /\ read_buffer = Buffer_new(0)
    /\ txt = <<>>
    /\ sent_lines = <<>>
    /\ read_lines = <<>>
    /\ called = NoCall

-----------------------------------------------------------------------------
(* parser/messages.rs, parser/event.rs *)

ParseOk(v) == [tag |-> "Ok", value |-> v]
ParseErr(s) == [tag |-> "Err", value |-> s]
ParseEmpty == [tag |-> "Empty"]
ParseMore == [tag |-> "More"]
\* an index out of bounds: the thread panics
ParsePanic == [tag |-> "Panic"]

FinishedUdpSend == 33
FinishedActiveScan == 34
ErrorOnPanaConnection == 36
EstablishedPanaConnection == 37
EventKind == {FinishedUdpSend, FinishedActiveScan, ErrorOnPanaConnection,
              EstablishedPanaConnection}

\* a parse_event that takes only lines of exactly three tokens
parse_event_three_tokens(data, parts) ==
    IF Len(parts) < 2 THEN ParsePanic
    ELSE IF FromStrRadixU8(parts[2]) < 0 THEN ParseErr(data)
    ELSE IF Len(parts) < 3 THEN ParsePanic
    ELSE IF FromStrRadixU8(parts[2]) \in EventKind /\ IsIpv6(parts[3]) /\ Len(parts) = 3
         THEN ParseOk([type |-> "Event",
                       kind |-> FromStrRadixU8(parts[2]), sender |-> parts[3]])
         ELSE ParseErr(data)

parse_event(data, parts) ==
    IF Len(parts) < 2 THEN ParsePanic
    ELSE IF FromStrRadixU8(parts[2]) < 0 THEN ParseErr(data)
    ELSE IF Len(parts) < 3 THEN ParsePanic
    ELSE IF FromStrRadixU8(parts[2]) \in EventKind /\ IsIpv6(parts[3])
         THEN ParseOk([type |-> "Event",
                       kind |-> FromStrRadixU8(parts[2]), sender |-> parts[3]])
         ELSE ParseErr(data)

parse_rx_udp_any_length(data, parts) ==
    IF Len(parts) # 9 THEN ParseErr(data)
    ELSE IF ~(IsIpv6(parts[2]) /\ IsIpv6(parts[3])) THEN ParseErr(data)
    ELSE IF FromStrRadixU16(parts[4]) < 0 \/ FromStrRadixU16(parts[5]) < 0
         THEN ParseErr(data)
    ELSE IF FromStrRadixU16(parts[8]) < 0 THEN ParseErr(data)
    ELSE IF HexDecode(parts[9]) = <<-1>> THEN ParseErr(data)
    ELSE ParseOk([type |-> "RxUdp", sender |-> parts[2], dest |-> parts[3],
                  source_port |-> FromStrRadixU16(parts[4]),
                  dest_port |-> FromStrRadixU16(parts[5]),
                  data |-> HexDecode(parts[9])])

parse_rx_udp(data, parts) ==
    IF Len(parts) # 9 THEN ParseErr(data)
    ELSE IF ~(IsIpv6(parts[2]) /\ IsIpv6(parts[3])) THEN ParseErr(data)
    ELSE IF FromStrRadixU16(parts[4]) < 0 \/ FromStrRadixU16(parts[5]) < 0
         THEN ParseErr(data)
    ELSE IF FromStrRadixU16(parts[8]) < 0 THEN ParseErr(data)
    ELSE IF FromStrRadixU16(parts[8]) * 2 # StrLen(parts[9]) THEN ParseErr(data)
    ELSE IF HexDecode(parts[9]) = <<-1>> THEN ParseErr(data)
    ELSE ParseOk([type |-> "RxUdp", sender |-> parts[2], dest |-> parts[3],
                  source_port |-> FromStrRadixU16(parts[4]),
                  dest_port |-> FromStrRadixU16(parts[5]),
                  data |-> HexDecode(parts[9])])

\* the HashMap parse_pan_desc fills: the value of the last line that has the key
RECURSIVE PanData(_, _)
PanData(kvs, key) ==
    IF kvs = <<>> THEN <<>>
    ELSE IF kvs[Len(kvs)][1] = key THEN <<kvs[Len(kvs)][2]>>
    ELSE PanData(SubSeq(kvs, 1, Len(kvs) - 1), key)

PanDescLineCount == 7

\* parse_pan_desc once the block has its lines: the key and value of each line after
\* the header go into a map, and channel, pan id and address are read from it
pan_desc_of_lines(data) ==
    LET Desc(channel, pan_id, addr) ==
            IF channel < 0 \/ pan_id < 0 \/ addr = <<-1>> \/ Len(addr) # 8
            THEN ParseErr(data)
            ELSE ParseOk([type |-> "PanDesc", channel |-> channel, pan_id |-> pan_id,
                          addr |-> addr])
        Fields(kvs, channel, pan_id, addr) ==
            IF \E k \in 1..Len(kvs) : Len(kvs[k]) # 2 THEN ParseErr(data)
            ELSE IF channel = <<>> \/ Len(channel[1]) # 1 THEN ParseErr(data)
            ELSE IF pan_id = <<>> \/ Len(pan_id[1]) # 1 THEN ParseErr(data)
            ELSE IF addr = <<>> \/ Len(addr[1]) # 1 THEN ParseErr(data)
            ELSE Desc(FromStrRadixU8(channel[1][1]), FromStrRadixU16(pan_id[1][1]),
                      HexDecode(addr[1][1]))
        Map(kvs) ==
            Fields(kvs, PanData(kvs, <<"Channel">>), PanData(kvs, <<"Pan", "ID">>),
                   PanData(kvs, <<"Addr">>))
    IN Map([k \in 1..(Len(data) - 1) |-> SplitColon(data[k + 1], <<>>)])

\* a parse_pan_desc that takes the block to be complete one line early
parse_pan_desc_six_lines(data) ==
    IF Len(data) # PanDescLineCount - 1 THEN ParseMore ELSE pan_desc_of_lines(data)

parse_pan_desc(data) ==
    IF Len(data) # PanDescLineCount THEN ParseMore ELSE pan_desc_of_lines(data)

\* the EVER line: WiSunEvent::Version, which client.rs matches on
parse_version(data, parts) ==
    ParseOk([type |-> "Version", version |-> Trim(Tail(Flatten(data)))])

WiSunEvent_parse(data) ==
    IF data = <<LineEmpty>> THEN ParseEmpty
    ELSE LET Event(parts) ==
                 CASE parts[1] = "EVENT" -> parse_event(data, parts)
                   [] parts[1] = "ERXUDP" -> parse_rx_udp(data, parts)
                   [] parts[1] = "EPANDESC" -> parse_pan_desc(data)
                   [] parts[1] = "EVER" /\ Len(Head(data)) > 1 -> parse_version(data, parts)
                   [] OTHER -> ParseErr(data)
         IN Event(SplitParts(data))

SerialMessage_parse(data) ==
    IF data = <<LineOk>> THEN ParseOk([type |-> "Ok"])
    ELSE IF Head(Head(data)) = "FAIL" /\ Len(Head(data)) > 1
         THEN ParseOk([type |-> "Fail", s |-> Trim(Tail(Flatten(data)))])
    ELSE LET Message(r) ==
                 IF r.tag = "Ok" THEN ParseOk([type |-> "Event", event |-> r.value])
                 ELSE IF r.tag = "Err" THEN ParseErr(data)
                 ELSE r
         IN Message(WiSunEvent_parse(data))

\* an add_line that clears the pending text only when a message is returned
add_line_keeps_text(pending, line) ==
    IF pending = <<>> /\ line = LineEmpty
    THEN [result |-> ParseEmpty, pending |-> pending]
    ELSE LET Added(all_line, r) ==
                 [result |-> r, pending |-> IF r.tag = "Ok" THEN <<>> ELSE all_line]
             Parsed(all_line) == Added(all_line, SerialMessage_parse(all_line))
         IN Parsed(Append(pending, line))

\* WiSunModuleParser::add_line: the result and the parser's new pending_message
add_line(pending, line) ==
    IF pending = <<>> /\ line = LineEmpty
    THEN [result |-> ParseEmpty, pending |-> pending]
    ELSE LET Added(all_line, r) ==
                 [result |-> r, pending |-> IF r.tag = "More" THEN all_line ELSE <<>>]
             Parsed(all_line) == Added(all_line, SerialMessage_parse(all_line))
         IN Parsed(Append(pending, line))

-----------------------------------------------------------------------------
(* Option and Result values *)

None == [some |-> FALSE]
Some(v) == [some |-> TRUE, v |-> v]
Ok(v) == [ok |-> TRUE, v |-> v]
Err(kind, s) == [ok |-> FALSE, kind |-> kind, s |-> s]
NotYet == [ok |-> FALSE, kind |-> "nothing returned yet", s |-> <<>>]

-----------------------------------------------------------------------------
(* echonet/enums.rs, echonet/packet.rs, echonet/property_map.rs *)

ECHONET_LITE_EHD1 == 16
ECHONET_FORMAT_1 == 129

SmartMeter == 165889
HemsController == 392961
EchonetObject == {SmartMeter, HemsController}

ReadPropertyFailResponse == 82
ReadPropertyRequest == 98
ReadPropertyResponse == 114
PropertyNotification == 115
PropertyNotificationResponseRequired == 116
PropertyNotificationResponse == 122
EchonetService ==
    {ReadPropertyFailResponse, ReadPropertyRequest, ReadPropertyResponse,
     PropertyNotification, PropertyNotificationResponseRequired,
     PropertyNotificationResponse}

Coefficient == 211
NumberOfEffectiveDigitsCumulativeElectricEnergy == 215
NormalDirectionCumulativeElectricEnergy == 224
UnitForCumulativeElectricEnergy == 225
NormalDirectionCumulativeElectricEnergyLog1 == 226
InstantaneousElectricPower == 231
InstantaneousCurrent == 232
EchonetSmartMeterProperty ==
    {Coefficient, NumberOfEffectiveDigitsCumulativeElectricEnergy,
     NormalDirectionCumulativeElectricEnergy, UnitForCumulativeElectricEnergy,
     NormalDirectionCumulativeElectricEnergyLog1, InstantaneousElectricPower,
     InstantaneousCurrent}

GetPropertyMap == 159
EchonetSuperClassProperty == {GetPropertyMap}

\* impl Into<[u8; 3]> for EchonetObject
ObjectBytes(obj) == <<(obj \div 65536) % 256, (obj \div 256) % 256, obj % 256>>

\* impl TryFrom<[u8; 3]> for EchonetObject: the number the three bytes make
ObjectNum(value) == value[1] * 65536 + value[2] * 256 + value[3]

\* a header whose tid is read most significant byte first on every host
TidFromBytesBigEndian(b0, b1, le) == b0 * 256 + b1

\* the two bytes of the u16 field tid of the transmuted header, in the host's order
TidFromBytes(b0, b1, le) == IF le THEN b1 * 256 + b0 ELSE b0 * 256 + b1
TidBytes(tid, le) ==
    IF le THEN <<tid % 256, tid \div 256>> ELSE <<tid \div 256, tid % 256>>

\* Property::parse: Ok([num, prop]) or Err; P is the property enum of the packet
Property_parse(bin, P) ==
    IF Len(bin) < 2 THEN Err("ParseError", <<"empty data">>)
    ELSE IF bin[1] \notin P THEN Err("InvalidEchonetProperty", <<>>)
    ELSE IF Len(bin) < 2 + bin[2] THEN Err("ParseError", <<"less data length">>)
    ELSE Ok([num |-> 2 + bin[2],
             prop |-> [epc |-> bin[1], data |-> SubSeq(bin, 3, bin[2] + 2)]])

Property_dump(prop) == <<prop.epc, Len(prop.data) % 256>> \o prop.data

\* the loop of Edata::parse: pos is the offset of the next property, n the
\* properties still to read
RECURSIVE ParseProperties(_, _, _, _, _)
ParseProperties(bin, pos, n, P, properties) ==
    IF n = 0 THEN Ok(properties)
    ELSE IF pos >= Len(bin) THEN Err("ParseError", <<"data length too short">>)
    ELSE LET Push(r) ==
                 IF ~r.ok THEN r
                 ELSE ParseProperties(bin, pos + r.v.num, n - 1, P,
                                      Append(properties, r.v.prop))
         IN Push(Property_parse(SubSeq(bin, pos + 1, Len(bin)), P))

Edata_parse(bin, P) ==
    IF Len(bin) < 8 THEN Err("ParseError", <<"data length too short">>)
    ELSE IF ObjectNum(SubSeq(bin, 1, 3)) \notin EchonetObject
         THEN Err("InvalidEchonetObjectIdError", <<>>)
    ELSE IF ObjectNum(SubSeq(bin, 4, 6)) \notin EchonetObject
         THEN Err("InvalidEchonetObjectIdError", <<>>)
    ELSE IF bin[7] \notin EchonetService THEN Err("InvalidEchonetServiceError", <<>>)
    ELSE LET Data(r) ==
                 IF ~r.ok THEN r
                 ELSE Ok([source_object |-> ObjectNum(SubSeq(bin, 1, 3)),
                          destination_object |-> ObjectNum(SubSeq(bin, 4, 6)),
                          echonet_service |-> bin[7],
                          properties |-> r.v])
         IN Data(ParseProperties(bin, 8, bin[8], P, <<>>))

RECURSIVE DumpProperties(_)
DumpProperties(properties) ==
    IF properties = <<>> THEN <<>>
    ELSE Property_dump(Head(properties)) \o DumpProperties(Tail(properties))

Edata_dump(edata) ==
    ObjectBytes(edata.source_object) \o ObjectBytes(edata.destination_object)
        \o <<edata.echonet_service, Len(edata.properties) % 256>>
        \o DumpProperties(edata.properties)

EchonetPacket_new(tid, data) ==
    [ehd1 |-> ECHONET_LITE_EHD1, ehd2 |-> ECHONET_FORMAT_1,
     transaction_id |-> tid, data |-> data]

\* an EchonetPacket::parse that does not look at EHD2
EchonetPacket_parse_any_ehd2(bin, P, le) ==
    IF Len(bin) < 4 THEN Err("ParseError", <<"data length too short">>)
    ELSE IF bin[1] # ECHONET_LITE_EHD1 THEN Err("InvalidValueError", <<"EHD1 MUST BE 0x10">>)
    ELSE LET Packet(edata) ==
                 IF ~edata.ok THEN edata
                 ELSE Ok([ehd1 |-> bin[1], ehd2 |-> bin[2],
                          transaction_id |-> TidFromBytes(bin[3], bin[4], le),
                          data |-> edata.v])
         IN Packet(Edata_parse(SubSeq(bin, 5, Len(bin)), P))

EchonetPacket_parse(bin, P, le) ==
    IF Len(bin) < 4 THEN Err("ParseError", <<"data length too short">>)
    ELSE IF bin[1] # ECHONET_LITE_EHD1 THEN Err("InvalidValueError", <<"EHD1 MUST BE 0x10">>)
    ELSE IF bin[2] # ECHONET_FORMAT_1 THEN Err("InvalidValueError", <<"EHD2 MUST BE 0x10">>)
    ELSE LET Packet(edata) ==
                 IF ~edata.ok THEN edata
                 ELSE Ok([ehd1 |-> bin[1], ehd2 |-> bin[2],
                          transaction_id |-> TidFromBytes(bin[3], bin[4], le),
                          data |-> edata.v])
         IN Packet(Edata_parse(SubSeq(bin, 5, Len(bin)), P))

EchonetPacket_dump(packet, le) ==
    <<packet.ehd1, packet.ehd2>> \o TidBytes(packet.transaction_id, le)
        \o Edata_dump(packet.data)

\* EchonetPacket::get_property: the first property with the EPC, as an Option
get_property(packet, epc) ==
    LET hits == {k \in 1..Len(packet.data.properties) :
                    packet.data.properties[k].epc = epc}
    IN IF hits = {} THEN None
       ELSE Some(packet.data.properties[CHOOSE k \in hits : \A h \in hits : k <= h])

\* i32::from_be_bytes and u32::from_be_bytes
U32FromBe(b) == ((b[1] * 256 + b[2]) * 256 + b[3]) * 256 + b[4]
I32FromBe(b) ==
    IF b[1] >= 128 THEN (((b[1] - 256) * 256 + b[2]) * 256 + b[3]) * 256 + b[4]
    ELSE U32FromBe(b)

\* a get_i32 that reads the first four bytes of longer data
get_i32_first_four(prop) ==
    IF Len(prop.data) >= 4 THEN Some(I32FromBe(SubSeq(prop.data, 1, 4))) ELSE None

get_i32(prop) == IF Len(prop.data) = 4 THEN Some(I32FromBe(prop.data)) ELSE None
get_u32(prop) == IF Len(prop.data) = 4 THEN Some(U32FromBe(prop.data)) ELSE None

\* bit j counted from the most significant end
BitSetFromTop(byte, j) == (byte \div (2 ^ (7 - j))) % 2 = 1

BitSet(byte, j) == (byte \div (2 ^ j)) % 2 = 1

PropertyMap_parse(bin) ==
    IF Len(bin) = 0 THEN Err("ParseError", <<"empty data">>)
    ELSE IF bin[1] < 16
         THEN Ok([properties |-> {bin[k] : k \in 2..Len(bin)}])
    ELSE IF Len(bin) # 17 THEN Err("ParseError", <<"data length MUST be equal to 17">>)
    ELSE LET props == {x \in 0..255 :
                          \E i \in 0..15, j \in 0..7 :
                              /\ BitSet(bin[i + 2], j)
                              /\ x = i + ((8 + j) * 16)}
         IN IF Cardinality(props) # bin[1]
            THEN Err("ParseError", <<"property count is wrong">>)
            ELSE Ok([properties |-> props])

has_property(map, prop) == prop \in map.properties

\* no packet and no descriptor: the state of the codec variables where they are not used
InitCodec ==
    /\ sent_packet = None
    /\ damage = [kind |-> "none"]
    /\ wire = <<>>
    /\ parsed = NotYet
    /\ reading = [fn |-> "none"]

-----------------------------------------------------------------------------
(* wisun_module/client.rs: closures, helpers and commands *)

MsgOk == [type |-> "Ok"]
IsEvent(m, kind) == m.type = "Event" /\ m.event.type = "Event" /\ m.event.kind = kind
IsPanDesc(m) == m.type = "Event" /\ m.event.type = "PanDesc"
IsVersion(m) == m.type = "Event" /\ m.event.type = "Version"
IsRxUdp(m) == m.type = "Event" /\ m.event.type = "RxUdp"

\* the property enum P of the packets a public operation reads, and the EPCs it asks for
PropertyClass(o) ==
    IF o \in {"connect", "get_property_map"} THEN EchonetSuperClassProperty
    ELSE EchonetSmartMeterProperty

RequestedProperties(o) ==
    CASE o \in {"connect", "get_property_map"} -> <<GetPropertyMap>>
      [] o = "get_power_consumption" -> <<InstantaneousElectricPower>>
      [] OTHER -> <<NormalDirectionCumulativeElectricEnergy,
                    UnitForCumulativeElectricEnergy, Coefficient>>

\* a closure that does not look at the transaction id
PacketMatchesObjects(p, tid) ==
    ~(p.data.destination_object # HemsController
        \/ p.data.source_object # SmartMeter)

\* the closure get_properties hands to wait_echonet_packet
PacketMatches(p, tid) ==
    /\ p.transaction_id = tid
    /\ ~(p.data.destination_object # HemsController
            \/ p.data.source_object # SmartMeter)

\* a closure that takes every ERXUDP, whether or not its payload is a packet
IsWantedPacket_any_payload(m) == IsRxUdp(m)

\* the closure wait_echonet_packet hands to wait_fn
IsWantedPacket(m) ==
    /\ IsRxUdp(m)
    /\ \E e \in {EchonetPacket_parse(m.event.data, PropertyClass(op), little_endian)} :
          e.ok /\ PacketMatches(e.v, transaction_id)

\* the pred closures, by name
Pred(p, m) ==
    CASE p = "Ok" -> m = MsgOk
      [] p = "Version" -> IsVersion(m)
      [] p = "FinishedActiveScan" -> IsEvent(m, FinishedActiveScan)
      [] p = "EstablishedPanaConnection" -> IsEvent(m, EstablishedPanaConnection)
      [] p = "PanDesc" -> IsPanDesc(m)
      [] p = "Packet" -> IsWantedPacket(m)

err_when_fail(m) == IF m.type = "Fail" THEN Some(m.s) ELSE None

\* an err_if for join that knows FAIL only
join_err_if_fail_only(m) == IF m.type = "Fail" THEN Some(m.s) ELSE None

\* the err_if closure of join
join_err_if(m) ==
    IF m.type = "Fail" THEN Some(m.s)
    ELSE IF IsEvent(m, ErrorOnPanaConnection) THEN Some(<<"failed to connect to pana">>)
    ELSE None

\* a scan whose wait_ok waits for EVENT 22
WaitPredScanOk(site) ==
    CASE site = "get_version.wait_fn" -> "Version"
      [] site \in {"scan.wait_fn", "scan.wait_ok"} -> "FinishedActiveScan"
      [] site = "join.wait_fn" -> "EstablishedPanaConnection"
      [] site = "wait_echonet_packet" -> "Packet"
      [] OTHER -> "Ok"

\* the arguments of each wait_fn call, by the place of the call
WaitPred(site) ==
    CASE site = "get_version.wait_fn" -> "Version"
      [] site = "scan.wait_fn" -> "FinishedActiveScan"
      [] site = "join.wait_fn" -> "EstablishedPanaConnection"
      [] site = "wait_echonet_packet" -> "Packet"
      [] OTHER -> "Ok"

ErrIf(site, m) == IF site = "join.wait_fn" THEN join_err_if(m) ELSE err_when_fail(m)

\* a wait_echonet_packet that passes None as the timeout
HasTimeoutNone(site) == FALSE

HasTimeout(site) == site = "wait_echonet_packet"

WaitSites ==
    {"ensure_echoback_off", "get_version.wait_ok", "get_version.wait_fn", "set_password",
     "set_bid", "scan.wait_ok", "scan.wait_fn", "set_register.S2", "set_register.S3",
     "join.wait_ok", "join.wait_fn", "send_udp", "wait_echonet_packet"}

RemoveAt(buf, i) == SubSeq(buf, 1, i - 1) \o SubSeq(buf, i + 1, Len(buf))

\* a search_on_buffer that leaves the message it found in the buffer
search_on_buffer_keeps(buf, p) ==
    LET Found(hits) ==
            IF hits = {} THEN [m |-> None, buffer |-> buf]
            ELSE [m |-> Some(buf[CHOOSE i \in hits : \A h \in hits : i <= h]),
                  buffer |-> buf]
    IN Found({i \in 1..Len(buf) : Pred(p, buf[i])})

\* a search_on_buffer that finds nothing
search_on_buffer_blind(buf, p) == [m |-> None, buffer |-> buf]

\* search_on_buffer: the message taken out, as an Option, and the buffer left
search_on_buffer(buf, p) ==
    LET Remove(delete_idx) ==
            [m |-> Some(buf[delete_idx]), buffer |-> RemoveAt(buf, delete_idx)]
        Found(hits) ==
            IF hits = {} THEN [m |-> None, buffer |-> buf]
            ELSE Remove(CHOOSE i \in hits : \A h \in hits : i <= h)
    IN Found({i \in 1..Len(buf) : Pred(p, buf[i])})

\* a wait_fn that returns the message it matched and leaves it in the buffer
wait_fn_keeps_match(buf, site) ==
    LET m == buf[Len(buf)] IN
    IF Pred(WaitPred(site), m) THEN [ret |-> Some(Ok(m)), buffer |-> buf]
    ELSE IF ErrIf(site, m).some
         THEN [ret |-> Some(Err("CommandError", ErrIf(site, m).v)), buffer |-> buf]
    ELSE [ret |-> None, buffer |-> buf]

\* a wait_fn that does not keep a PanDesc it is not waiting for
wait_fn_drops_pan_desc(buf, site) ==
    LET m == buf[Len(buf)] IN
    IF Pred(WaitPred(site), m)
    THEN [ret |-> Some(Ok(m)), buffer |-> RemoveAt(buf, Len(buf))]
    ELSE IF ErrIf(site, m).some
         THEN [ret |-> Some(Err("CommandError", ErrIf(site, m).v)), buffer |-> buf]
    ELSE [ret |-> None,
          buffer |-> IF IsPanDesc(m) THEN RemoveAt(buf, Len(buf)) ELSE buf]

\* a wait_fn that never asks err_if
wait_fn_without_err_if(buf, site) ==
    LET m == buf[Len(buf)] IN
    IF Pred(WaitPred(site), m)
    THEN [ret |-> Some(Ok(m)), buffer |-> RemoveAt(buf, Len(buf))]
    ELSE [ret |-> None, buffer |-> buf]

\* wait_fn after get_message returned Ok(true): buf ends with the message just pushed.
\* ret is Some(result) when wait_fn returns, None when it goes on reading.
wait_fn_on_message(buf, site) ==
    LET m == buf[Len(buf)] IN
    IF Pred(WaitPred(site), m)
    THEN [ret |-> Some(Ok(m)), buffer |-> RemoveAt(buf, Len(buf))]
    ELSE IF ErrIf(site, m).some
         THEN [ret |-> Some(Err("CommandError", ErrIf(site, m).v)), buffer |-> buf]
    ELSE [ret |-> None, buffer |-> buf]

\* a whole wait_fn call without a timeout: buf is message_buffer and pending the text the
\* parser holds when it starts, reads what the read_line calls return one after the other
\* (a line, or an error).  ret is None when all of reads is used up and wait_fn still
\* waits.
RECURSIVE wait_fn(_, _, _, _, _)
wait_fn(buf, pending, site, reads, searched) ==
    LET Searched(found) ==
            IF found.m.some
            THEN [ret |-> Some(Ok(found.m.v)), buffer |-> found.buffer, pending |-> pending]
            ELSE wait_fn(buf, pending, site, reads, TRUE)
        Pushed(r, w) ==
            IF w.ret.some
            THEN [ret |-> w.ret, buffer |-> w.buffer, pending |-> r.pending]
            ELSE wait_fn(w.buffer, r.pending, site, Tail(reads), TRUE)
        Added(r) ==
            IF r.result.tag = "Ok"
            THEN Pushed(r, wait_fn_on_message(Append(buf, r.result.value), site))
            ELSE IF r.result.tag = "Panic"
                 THEN [ret |-> Some(Err("Panic", <<>>)), buffer |-> buf,
                       pending |-> r.pending]
            ELSE wait_fn(buf, r.pending, site, Tail(reads), TRUE)
    IN IF ~searched THEN Searched(search_on_buffer(buf, WaitPred(site)))
       ELSE IF reads = <<>> THEN [ret |-> None, buffer |-> buf, pending |-> pending]
       ELSE IF Head(reads).err # "none"
            THEN wait_fn(buf, pending, site, Tail(reads), TRUE)
       ELSE Added(add_line(pending, Head(reads).line))

\* b ^ 0b00000001
XorBit0(b) == IF b % 2 = 1 THEN b - 1 ELSE b + 1

\* b ^ 0b00000010
XorBit1(b) == IF (b \div 2) % 2 = 1 THEN b - 2 ELSE b + 2

get_ip(addr) ==
    <<254, 128, 0, 0, 0, 0, 0, 0, XorBit1(addr[1])>> \o SubSeq(addr, 2, 8)

\* a check that lets every request through
check_property_exists_never(map, props) == Ok(<<>>)

check_property_exists(map, props) ==
    IF Len(props) = 1 /\ props[1] = GetPropertyMap THEN Ok(<<>>)
    ELSE IF ~map.some
         THEN Err("CommandError", <<"property map is not initialized.">>)
    ELSE IF \E k \in 1..Len(props) : ~has_property(map.v, props[k])
         THEN Err("CommandError", <<"Property is not implemented.">>)
    ELSE Ok(<<>>)

\* the request packet get_properties builds
RequestPacket(tid, props) ==
    EchonetPacket_new(tid,
        [source_object |-> HemsController,
         destination_object |-> SmartMeter,
         echonet_service |-> ReadPropertyRequest,
         properties |-> [k \in 1..Len(props) |-> [epc |-> props[k], data |-> <<>>]]])

\* ipv6_addr_full_string: the eight segments, each printed as four hex digits
ipv6_addr_full_string(ip) == [k \in 1..8 |-> ip[2 * k - 1] * 256 + ip[2 * k]]

\* commands, as the client writes them
CmdSksreg(reg, value) == [cmd |-> "SKSREG", reg |-> reg, value |-> value]
CmdSkver == [cmd |-> "SKVER"]
CmdSetPwd == [cmd |-> "SKSETPWD"]
CmdSetRbid == [cmd |-> "SKSETRBID"]
CmdScan(i) == [cmd |-> "SKSCAN", duration |-> i]
CmdJoin(ip) == [cmd |-> "SKJOIN", addr |-> ipv6_addr_full_string(ip)]

\* for i in 4..10
ScanFirst == 4
ScanEnd == 10
\* a loop that leaves out every second duration
ScanNextSkips(i) == i + 2
\* a loop that ends after its first turn
ScanNextEnds(i) == ScanEnd
ScanNext(i) == i + 1

\* the ids rand::random() may give
TransactionIds == {1, 256}

\* the most messages message_buffer holds
MaxBuf == 2

ECHONET_PORT == 3610

\* create_send_udp_base followed by the data: the SKSENDTO command send_udp writes
CmdSendTo(ip, data) ==
    [cmd |-> "SKSENDTO", handle |-> 1, addr |-> ipv6_addr_full_string(ip),
     port |-> ECHONET_PORT, security_bit |-> 1, data_length |-> Len(data), data |-> data]

\* lines the module sends to the client; the six lines of an EPANDESC block follow
\* their header without a gap
ClientLines ==
    {LineEmpty, LineOk, LineFail, LineEcho, LineEvent("22"), LineEvent("24"),
     LineEvent("25"), LineEver, LineEpandesc,
     LineRxUdp("0010", HexMapAT1), LineRxUdp("0010", HexMapAT2),
     LineRxUdp("0012", HexPowerT1), LineRxUdp("000E", HexEchoT1)}

parserObs == <<last_line, parse_result, block_pos>>

-----------------------------------------------------------------------------
(* wisun_module/client.rs: the client as a state machine.  The client blocks only in
   read_line, so a step is one read_line call with what wait_fn does on its result, or
   the straight-line code between two wait_fn calls. *)

InitParser ==
    /\ pending_message = <<>>
    /\ last_line = <<>>
    /\ parse_result = [tag |-> "None"]
    /\ block_pos = 0

InitClient ==
    /\ message_buffer = <<>>
    /\ address = None
    /\ property_map = None
    /\ written = <<>>
    /\ op = "none"
    /\ pc = "start"
    /\ phase = "none"
    /\ in_get_message = FALSE
    /\ scan_i = 0
    /\ pan = None
    /\ transaction_id = 0
    /\ ret = NotYet
    /\ result = NotYet
    /\ mod_lines = <<>>
    /\ entry_buffer = <<>>
    /\ read_msgs = <<>>
    /\ rx_log = <<>>
    /\ read_error = "none"
    /\ runs = [done |-> FALSE]

\* a wait_fn call begins
Goto(site) ==
    /\ pc' = site
    /\ phase' = "call"
    /\ ret' = NotYet
    /\ entry_buffer' = <<>>
    /\ read_msgs' = <<>>
    /\ read_error' = "none"
    /\ in_get_message' = FALSE

\* the public operation o returns res
Finish(o, res) ==
    /\ pc' = IF o = "new" /\ ~res.ok THEN "failed" ELSE "idle"
    /\ phase' = "none"
    /\ result' = res
    /\ ret' = NotYet
    /\ entry_buffer' = <<>>
    /\ read_msgs' = <<>>
    /\ read_error' = "none"
    /\ in_get_message' = FALSE
    /\ scan_i' = 0
    /\ transaction_id' = 0

\* write_line(cmd)? followed by the wait_fn call at site; buf is message_buffer at the
\* write, log the commands written before it, i, p and tid the locals kept
Command(o, buf, log, cmd, site, i, p, tid) ==
    /\ message_buffer' = buf
    /\ \E write_ok \in BOOLEAN :
          IF write_ok
          THEN /\ written' = Append(log, cmd)
               /\ rx_log' = <<>>
               /\ Goto(site)
               /\ result' = NotYet
               /\ scan_i' = i
               /\ pan' = p
               /\ transaction_id' = tid
          ELSE /\ written' = log
               /\ rx_log' = rx_log
               /\ pan' = p
               /\ Finish(o, Err("SerialError", <<"write failed">>))

\* the operation o returns res without writing anything more
Return(o, res) ==
    /\ message_buffer' = message_buffer
    /\ written' = written
    /\ rx_log' = rx_log
    /\ pan' = None
    /\ Finish(o, res)

\* WiSunClient::new with ensure_echoback_off
New ==
    /\ pc \in {"start", "failed"}
    /\ op' = "new"
    /\ pending_message' = <<>>
    /\ address' = None
    /\ property_map' = None
    /\ Command("new", <<>>, <<>>, CmdSksreg("SFE", 0), "ensure_echoback_off", 0, None, 0)
    /\ UNCHANGED <<mod_lines, little_endian, serialVars, codecVars, runs, parserObs>>

Ret_ensure_echoback_off ==
    /\ pc = "ensure_echoback_off" /\ phase = "ret"
    /\ Return(op, IF ret.ok THEN Ok(<<>>) ELSE ret)
    /\ UNCHANGED <<pending_message, address, property_map, op, mod_lines, little_endian,
                   serialVars, codecVars, runs, parserObs>>

\* get_version
Call_get_version ==
    /\ pc = "idle"
    /\ op' = "get_version"
    /\ Command("get_version", <<>>, <<>>, CmdSkver, "get_version.wait_ok", 0, None, 0)
    /\ UNCHANGED <<pending_message, address, property_map, mod_lines, little_endian,
                   serialVars, codecVars, runs, parserObs>>

\* a get_version that flushes message_buffer again after wait_ok
Ret_get_version_wait_ok_flushes ==
    /\ pc = "get_version.wait_ok" /\ phase = "ret"
    /\ IF ret.ok
       THEN /\ Goto("get_version.wait_fn")
            /\ message_buffer' = <<>>
            /\ UNCHANGED <<written, rx_log, result, scan_i, pan, transaction_id>>
       ELSE Return(op, ret)
    /\ UNCHANGED <<pending_message, address, property_map, op, mod_lines, little_endian,
                   serialVars, codecVars, runs, parserObs>>

Ret_get_version_wait_ok ==
    /\ pc = "get_version.wait_ok" /\ phase = "ret"
    /\ IF ret.ok
       THEN /\ Goto("get_version.wait_fn")
            /\ UNCHANGED <<message_buffer, written, rx_log, result, scan_i, pan,
                           transaction_id>>
       ELSE Return(op, ret)
    /\ UNCHANGED <<pending_message, address, property_map, op, mod_lines, little_endian,
                   serialVars, codecVars, runs, parserObs>>

Ret_get_version_wait_fn ==
    /\ pc = "get_version.wait_fn" /\ phase = "ret"
    /\ Return(op, IF ~ret.ok THEN ret
                  ELSE IF IsVersion(ret.v) THEN Ok(ret.v.event.version)
                  ELSE Err("CommandError", <<"Unexpected msg">>))
    /\ UNCHANGED <<pending_message, address, property_map, op, mod_lines, little_endian,
                   serialVars, codecVars, runs, parserObs>>

\* a get_properties whose send_udp flushes before it looks at the address
get_properties_flushes_first(o, addr, log) ==
    LET props == RequestedProperties(o)
        checked == check_property_exists(property_map, props)
    IN IF ~checked.ok
       THEN /\ message_buffer' = message_buffer
            /\ written' = log
            /\ rx_log' = rx_log
            /\ pan' = None
            /\ Finish(o, checked)
       ELSE \E tid \in TransactionIds :
               IF ~addr.some
               THEN /\ message_buffer' = <<>>
                    /\ written' = log
                    /\ rx_log' = rx_log
                    /\ pan' = None
                    /\ Finish(o, Err("CommandError", <<"address is not set">>))
               ELSE Command(o, <<>>, log,
                            CmdSendTo(addr.v, EchonetPacket_dump(RequestPacket(tid, props),
                                                                 little_endian)),
                            "send_udp", 0, None, tid)

\* get_properties up to the wait_fn call of send_udp; addr is self.address and log the
\* commands written so far
get_properties(o, addr, log) ==
    LET props == RequestedProperties(o)
        checked == check_property_exists(property_map, props)
    IN IF ~checked.ok
       THEN /\ message_buffer' = message_buffer
            /\ written' = log
            /\ rx_log' = rx_log
            /\ pan' = None
            /\ Finish(o, checked)
       ELSE \E tid \in TransactionIds :
               IF ~addr.some
               THEN /\ message_buffer' = message_buffer
                    /\ written' = log
                    /\ rx_log' = rx_log
                    /\ pan' = None
                    /\ Finish(o, Err("CommandError", <<"address is not set">>))
               ELSE Command(o, <<>>, log,
                            CmdSendTo(addr.v, EchonetPacket_dump(RequestPacket(tid, props),
                                                                 little_endian)),
                            "send_udp", 0, None, tid)

\* connect
Call_connect ==
    /\ pc = "idle"
    /\ op' = "connect"
    /\ Command("connect", <<>>, <<>>, CmdSetPwd, "set_password", 0, None, 0)
    /\ UNCHANGED <<pending_message, address, property_map, mod_lines, little_endian,
                   serialVars, codecVars, runs, parserObs>>

\* a connect that goes on to set_bid whatever set_password returned
Ret_set_password_unchecked ==
    /\ pc = "set_password" /\ phase = "ret"
    /\ Command(op, <<>>, <<>>, CmdSetRbid, "set_bid", 0, None, 0)
    /\ UNCHANGED <<pending_message, address, property_map, op, mod_lines, little_endian,
                   serialVars, codecVars, runs, parserObs>>

Ret_set_password ==
    /\ pc = "set_password" /\ phase = "ret"
    /\ IF ret.ok
       THEN Command(op, <<>>, <<>>, CmdSetRbid, "set_bid", 0, None, 0)
       ELSE Return(op, ret)
    /\ UNCHANGED <<pending_message, address, property_map, op, mod_lines, little_endian,
                   serialVars, codecVars, runs, parserObs>>

Ret_set_bid ==
    /\ pc = "set_bid" /\ phase = "ret"
    /\ IF ret.ok
       THEN Command(op, <<>>, <<>>, CmdScan(ScanFirst), "scan.wait_ok", ScanFirst,
                    None, 0)
       ELSE Return(op, ret)
    /\ UNCHANGED <<pending_message, address, property_map, op, mod_lines, little_endian,
                   serialVars, codecVars, runs, parserObs>>

Ret_scan_wait_ok ==
    /\ pc = "scan.wait_ok" /\ phase = "ret"
    /\ IF ret.ok
       THEN /\ Goto("scan.wait_fn")
            /\ UNCHANGED <<message_buffer, written, rx_log, result, scan_i, pan,
                           transaction_id>>
       ELSE Return(op, ret)
    /\ UNCHANGED <<pending_message, address, property_map, op, mod_lines, little_endian,
                   serialVars, codecVars, runs, parserObs>>

\* a scan that starts again with duration 4 when duration 9 has found nothing
Ret_scan_wait_fn_starts_again ==
    /\ pc = "scan.wait_fn" /\ phase = "ret"
    /\ IF ~ret.ok THEN Return(op, ret)
       ELSE \E desc \in {search_on_buffer(message_buffer, "PanDesc")} :
            IF desc.m.some
            THEN Command(op, <<>>, <<>>, CmdSksreg("S2", desc.m.v.event.channel),
                         "set_register.S2", 0, Some(desc.m.v.event), 0)
            ELSE IF ScanNext(scan_i) < ScanEnd
                 THEN Command(op, <<>>, written, CmdScan(ScanNext(scan_i)),
                              "scan.wait_ok", ScanNext(scan_i), None, 0)
            ELSE Command(op, <<>>, <<>>, CmdScan(ScanFirst), "scan.wait_ok", ScanFirst,
                         None, 0)
    /\ UNCHANGED <<pending_message, address, property_map, op, mod_lines, little_endian,
                   serialVars, codecVars, runs, parserObs>>

\* the end of one turn of scan's loop; a PanDesc found ends scan, and connect goes on
\* to set_register("S2", ..)
Ret_scan_wait_fn ==
    /\ pc = "scan.wait_fn" /\ phase = "ret"
    /\ IF ~ret.ok THEN Return(op, ret)
       ELSE \E desc \in {search_on_buffer(message_buffer, "PanDesc")} :
            IF desc.m.some
            THEN Command(op, <<>>, <<>>, CmdSksreg("S2", desc.m.v.event.channel),
                         "set_register.S2", 0, Some(desc.m.v.event), 0)
            ELSE IF ScanNext(scan_i) < ScanEnd
                 THEN Command(op, <<>>, written, CmdScan(ScanNext(scan_i)),
                              "scan.wait_ok", ScanNext(scan_i), None, 0)
            ELSE Return(op, Err("ScanError", <<"pan not found">>))
    /\ UNCHANGED <<pending_message, address, property_map, op, mod_lines, little_endian,
                   serialVars, codecVars, runs, parserObs>>

Ret_set_register_S2 ==
    /\ pc = "set_register.S2" /\ phase = "ret"
    /\ IF ret.ok
       THEN Command(op, <<>>, <<>>, CmdSksreg("S3", pan.v.pan_id), "set_register.S3",
                    0, pan, 0)
       ELSE Return(op, ret)
    /\ UNCHANGED <<pending_message, address, property_map, op, mod_lines, little_endian,
                   serialVars, codecVars, runs, parserObs>>

\* join writes SKJOIN over the message_buffer set_register left
Ret_set_register_S3 ==
    /\ pc = "set_register.S3" /\ phase = "ret"
    /\ IF ret.ok
       THEN Command(op, message_buffer, <<>>, CmdJoin(get_ip(pan.v.addr)),
                    "join.wait_ok", 0, pan, 0)
       ELSE Return(op, ret)
    /\ UNCHANGED <<pending_message, address, property_map, op, mod_lines, little_endian,
                   serialVars, codecVars, runs, parserObs>>

Ret_join_wait_ok ==
    /\ pc = "join.wait_ok" /\ phase = "ret"
    /\ IF ret.ok
       THEN /\ Goto("join.wait_fn")
            /\ UNCHANGED <<message_buffer, written, rx_log, result, scan_i, pan,
                           transaction_id>>
       ELSE Return(op, ret)
    /\ UNCHANGED <<pending_message, address, property_map, op, mod_lines, little_endian,
                   serialVars, codecVars, runs, parserObs>>

\* a connect that stores the address whatever join returned
Ret_join_wait_fn_stores ==
    /\ pc = "join.wait_fn" /\ phase = "ret"
    /\ address' = Some(get_ip(pan.v.addr))
    /\ IF ret.ok
       THEN get_properties(op, Some(get_ip(pan.v.addr)), <<>>)
       ELSE Return(op, ret)
    /\ UNCHANGED <<pending_message, property_map, op, mod_lines, little_endian,
                   serialVars, codecVars, runs, parserObs>>

\* join returned: connect stores the address and calls get_property_map
Ret_join_wait_fn ==
    /\ pc = "join.wait_fn" /\ phase = "ret"
    /\ IF ret.ok
       THEN /\ address' = Some(get_ip(pan.v.addr))
            /\ get_properties(op, Some(get_ip(pan.v.addr)), <<>>)
       ELSE /\ address' = address
            /\ Return(op, ret)
    /\ UNCHANGED <<pending_message, property_map, op, mod_lines, little_endian,
                   serialVars, codecVars, runs, parserObs>>

Ret_send_udp ==
    /\ pc = "send_udp" /\ phase = "ret"
    /\ IF ret.ok
       THEN /\ Goto("wait_echonet_packet")
            /\ UNCHANGED <<message_buffer, written, rx_log, result, scan_i, pan,
                           transaction_id>>
       ELSE Return(op, ret)
    /\ UNCHANGED <<pending_message, address, property_map, op, mod_lines, little_endian,
                   serialVars, codecVars, runs, parserObs>>

\* the match on the unit byte in get_cumulative_electric_energy: the factor as a
\* fraction, <<0, 0>> for a byte that is no unit
UnitFactor(b) ==
    CASE b = 0 -> <<1, 1>>
      [] b = 1 -> <<1, 10>>
      [] b = 2 -> <<1, 100>>
      [] b = 3 -> <<1, 1000>>
      [] b = 4 -> <<1, 10000>>
      [] b = 10 -> <<10, 1>>
      [] b = 11 -> <<100, 1>>
      [] b = 12 -> <<1000, 1>>
      [] b = 13 -> <<10000, 1>>
      [] OTHER -> <<0, 0>>

\* what get_power_consumption makes of the packet
power_of_packet(packet) ==
    LET property == get_property(packet, InstantaneousElectricPower) IN
    IF ~property.some THEN Err("CommandError", <<"unknown error">>)
    ELSE IF ~get_i32(property.v).some THEN Err("CommandError", <<"malformed property">>)
    ELSE Ok(get_i32(property.v).v)

\* what get_cumulative_electric_energy makes of the packet; p.data[0] of an empty unit
\* property panics
energy_of_packet(packet) ==
    LET base == get_property(packet, NormalDirectionCumulativeElectricEnergy)
        unit == get_property(packet, UnitForCumulativeElectricEnergy)
        coefficient == get_property(packet, Coefficient)
    IN IF ~base.some THEN Err("CommandError", <<"unknown error">>)
       ELSE IF ~get_u32(base.v).some THEN Err("CommandError", <<"malformed property">>)
       ELSE IF ~unit.some THEN Err("CommandError", <<"unknown error">>)
       ELSE IF unit.v.data = <<>> THEN Err("Panic", <<"index out of bounds">>)
       ELSE IF UnitFactor(unit.v.data[1]) = <<0, 0>>
            THEN Err("CommandError", <<"unexpected unit">>)
       ELSE IF ~coefficient.some THEN Err("CommandError", <<"unknown error">>)
       ELSE IF ~get_u32(coefficient.v).some
            THEN Err("CommandError", <<"malformed property">>)
       ELSE Ok([num |-> get_u32(base.v).v * UnitFactor(unit.v.data[1])[1]
                            * get_u32(coefficient.v).v,
                den |-> UnitFactor(unit.v.data[1])[2]])

\* what get_property_map makes of the packet: the result and the map it stores
map_of_packet(packet) ==
    LET prop == get_property(packet, GetPropertyMap) IN
    IF ~prop.some THEN Err("CommandError", <<"property not found">>)
    ELSE PropertyMap_parse(prop.v.data)

\* wait_echonet_packet returned to get_properties, and that to the public operation
Ret_wait_echonet_packet ==
    /\ pc = "wait_echonet_packet" /\ phase = "ret"
    /\ UNCHANGED <<message_buffer, written, rx_log, pan>>
    /\ IF ~ret.ok THEN Finish(op, ret) /\ UNCHANGED property_map
       ELSE IF ~IsRxUdp(ret.v)
            THEN Finish(op, Err("CommandError", <<"Unknown error">>)) /\ UNCHANGED property_map
       ELSE \E e \in {EchonetPacket_parse(ret.v.event.data, PropertyClass(op),
                                            little_endian)} :
               IF ~e.ok THEN Finish(op, e) /\ UNCHANGED property_map
               ELSE IF op \in {"connect", "get_property_map"}
                    THEN \E map \in {map_of_packet(e.v)} :
                            IF map.ok
                            THEN /\ property_map' = Some(map.v)
                                 /\ Finish(op, Ok(<<>>))
                            ELSE Finish(op, map) /\ UNCHANGED property_map
               ELSE IF op = "get_power_consumption"
                    THEN Finish(op, power_of_packet(e.v)) /\ UNCHANGED property_map
               ELSE Finish(op, energy_of_packet(e.v)) /\ UNCHANGED property_map
    /\ UNCHANGED <<pending_message, address, op, mod_lines, little_endian,
                   serialVars, codecVars, runs, parserObs>>

Call_get_property_map ==
    /\ pc = "idle"
    /\ op' = "get_property_map"
    /\ get_properties("get_property_map", address, <<>>)
    /\ UNCHANGED <<pending_message, address, property_map, mod_lines, little_endian,
                   serialVars, codecVars, runs, parserObs>>

Call_get_power_consumption ==
    /\ pc = "idle"
    /\ op' = "get_power_consumption"
    /\ get_properties("get_power_consumption", address, <<>>)
    /\ UNCHANGED <<pending_message, address, property_map, mod_lines, little_endian,
                   serialVars, codecVars, runs, parserObs>>

Call_get_cumulative_electric_energy ==
    /\ pc = "idle"
    /\ op' = "get_cumulative_electric_energy"
    /\ get_properties("get_cumulative_electric_energy", address, <<>>)
    /\ UNCHANGED <<pending_message, address, property_map, mod_lines, little_endian,
                   serialVars, codecVars, runs, parserObs>>

\* wait_fn, lines 95-100: the search on message_buffer before anything is read
WaitFnEnter ==
    /\ pc \in WaitSites /\ phase = "call"
    /\ \E found \in {search_on_buffer(message_buffer, WaitPred(pc))} :
       /\ entry_buffer' = message_buffer
       /\ message_buffer' = found.buffer
       /\ IF found.m.some
          THEN phase' = "ret" /\ ret' = Ok(found.m.v)
          ELSE phase' = "loop" /\ ret' = ret
    /\ UNCHANGED <<pending_message, address, property_map, written, op, pc,
                   in_get_message, scan_i, pan, transaction_id, result, mod_lines,
                   read_msgs, rx_log, read_error, little_endian,
                   serialVars, codecVars, runs, parserObs>>

\* one read_line that returns a line, add_line on it, and what get_message and wait_fn
\* do with the result
ReadLine ==
    /\ pc \in WaitSites /\ phase = "loop"
    /\ \E line \in (IF mod_lines = <<>> THEN ClientLines ELSE {Head(mod_lines)}) :
          \E r \in {add_line(pending_message, line)} :
             /\ pending_message' = r.pending
             /\ read_error' = "none"
             /\ mod_lines' = IF mod_lines # <<>> THEN Tail(mod_lines)
                             ELSE IF line = LineEpandesc THEN PanDescLines(LineChannel)
                             ELSE <<>>
             /\ IF r.result.tag = "Ok"
                THEN \E w \in {wait_fn_on_message(Append(message_buffer, r.result.value),
                                                   pc)} :
                     /\ Len(w.buffer) <= MaxBuf
                     /\ message_buffer' = w.buffer
                     /\ read_msgs' = Append(read_msgs, r.result.value)
                     /\ rx_log' = Append(rx_log, r.result.value)
                     /\ in_get_message' = FALSE
                     /\ IF w.ret.some
                        THEN phase' = "ret" /\ ret' = w.ret.v
                        ELSE phase' = "loop" /\ ret' = ret
                     /\ pc' = pc
                ELSE /\ UNCHANGED <<message_buffer, read_msgs, rx_log, ret>>
                     /\ in_get_message' = (r.result.tag \in {"More", "Err"})
                     /\ phase' = IF r.result.tag = "Panic" THEN "none" ELSE "loop"
                     /\ pc' = IF r.result.tag = "Panic" THEN "aborted" ELSE pc
    /\ UNCHANGED <<address, property_map, written, op, scan_i, pan, transaction_id,
                   result, entry_buffer, little_endian, serialVars, codecVars, runs, parserObs>>

\* the errors read_line returns: an I/O error of kind TimedOut, an I/O error of another
\* kind, and bad UTF-8
ReadErrors == {"TimedOut", "IoError", "Utf8Error"}

\* a wait_fn that returns every error of read_line to its caller
ReadErrorReturned ==
    /\ pc \in WaitSites /\ phase = "loop"
    /\ \E e \in ReadErrors : read_error' = e
    /\ in_get_message' = FALSE
    /\ phase' = "ret"
    /\ ret' = Err("SerialError", <<"read failed">>)
    /\ UNCHANGED <<pending_message, message_buffer, address, property_map, written, op,
                   pc, scan_i, pan, transaction_id, result, mod_lines, entry_buffer,
                   read_msgs, rx_log, little_endian, serialVars, codecVars, runs, parserObs>>

\* read_line returns an error (a timeout of the port, an I/O error, bad UTF-8): get_message
\* returns it and wait_fn goes round its loop again, whatever the error
ReadError ==
    /\ pc \in WaitSites /\ phase = "loop"
    /\ \E e \in ReadErrors : read_error' = e
    /\ in_get_message' = FALSE
    /\ UNCHANGED <<pending_message, message_buffer, address, property_map, written, op,
                   pc, phase, scan_i, pan, transaction_id, ret, result, mod_lines,
                   entry_buffer, read_msgs, rx_log, little_endian,
                   serialVars, codecVars, runs, parserObs>>

\* wait_fn, lines 104-111: the deadline has passed when wait_fn comes round its loop
Timeout ==
    /\ pc \in WaitSites /\ phase = "loop"
    /\ HasTimeout(pc)
    /\ ~in_get_message
    /\ phase' = "ret"
    /\ ret' = Err("TimeoutError", <<>>)
    /\ UNCHANGED <<pending_message, message_buffer, address, property_map, written, op,
                   pc, in_get_message, scan_i, pan, transaction_id, result, mod_lines,
                   entry_buffer, read_msgs, rx_log, read_error, little_endian,
                   serialVars, codecVars, runs, parserObs>>

InitC == InitParser /\ InitClient /\ InitSerial /\ InitCodec /\ little_endian \in BOOLEAN

NextC ==
    \/ New
    \/ Call_get_version
    \/ Call_connect
    \/ Call_get_property_map
    \/ Call_get_power_consumption
    \/ Call_get_cumulative_electric_energy
    \/ WaitFnEnter
    \/ ReadLine
    \/ ReadError
    \/ Timeout
    \/ Ret_ensure_echoback_off
    \/ Ret_get_version_wait_ok
    \/ Ret_get_version_wait_fn
    \/ Ret_set_password
    \/ Ret_set_bid
    \/ Ret_scan_wait_ok
    \/ Ret_scan_wait_fn
    \/ Ret_set_register_S2
    \/ Ret_set_register_S3
    \/ Ret_join_wait_ok
    \/ Ret_join_wait_fn
    \/ Ret_send_udp
    \/ Ret_wait_echonet_packet

SpecClient == InitC /\ [][NextC]_vars

-----------------------------------------------------------------------------
(* The client after connect: reads of properties.  The port gives up a read after
   100 ms (serial/port.rs 63), so read_line returns TimedOut when the module is silent,
   and the clock goes on, so a deadline that is looked at again and again has passed
   at some time. *)

\* the client as a connect leaves it that read the id 1 on a little-endian host: the
\* address of the meter and its property map are stored
InitConnected ==
    /\ InitParser
    /\ InitSerial
    /\ InitCodec
    /\ little_endian = TRUE
    /\ message_buffer = <<>>
    /\ address = Some(get_ip(HexDecode(HexMac)))
    /\ property_map = Some([properties |-> {InstantaneousElectricPower}])
    /\ written = <<CmdSendTo(get_ip(HexDecode(HexMac)),
                             EchonetPacket_dump(RequestPacket(1, <<GetPropertyMap>>), TRUE))>>
    /\ op = "connect"
    /\ pc = "idle"
    /\ phase = "none"
    /\ in_get_message = FALSE
    /\ scan_i = 0
    /\ pan = None
    /\ transaction_id = 0
    /\ ret = NotYet
    /\ result = Ok(<<>>)
    /\ mod_lines = <<>>
    /\ entry_buffer = <<>>
    /\ read_msgs = <<>>
    /\ rx_log = <<MsgOk, SerialMessage_parse(<<LineRxUdp("0010", HexMapAT1)>>).value>>
    /\ read_error = "none"
    /\ runs = [done |-> FALSE]

NextW ==
    \/ Call_get_property_map
    \/ Call_get_power_consumption
    \/ WaitFnEnter
    \/ ReadLine
    \/ ReadError
    \/ Timeout
    \/ Ret_send_udp
    \/ Ret_wait_echonet_packet

SpecWait ==
    /\ InitConnected
    /\ [][NextW]_vars
    /\ WF_vars(ReadError)
    /\ SF_vars(Timeout)

-----------------------------------------------------------------------------
(* scan with a module that answers: every SKSCAN is answered with OK and, later,
   EVENT 22, and a complete EPANDESC block may come before the OK and before the
   EVENT 22.  The client runs, and a line that has arrived is read in the end: weak
   fairness of ReadLine, with the guard of ReadLine written out for ENABLED. *)

\* connect has had the OK of SKSETRBID and scan has written its first SKSCAN
InitScan ==
    /\ InitParser
    /\ InitSerial
    /\ InitCodec
    /\ little_endian = TRUE
    /\ message_buffer = <<>>
    /\ address = None
    /\ property_map = None
    /\ written = <<CmdScan(ScanFirst)>>
    /\ op = "connect"
    /\ pc = "scan.wait_ok"
    /\ phase = "call"
    /\ in_get_message = FALSE
    /\ scan_i = ScanFirst
    /\ pan = None
    /\ transaction_id = 0
    /\ ret = NotYet
    /\ result = NotYet
    /\ mod_lines = <<>>
    /\ entry_buffer = <<>>
    /\ read_msgs = <<>>
    /\ rx_log = <<>>
    /\ read_error = "none"
    /\ runs = [done |-> FALSE]

\* the module answers the SKSCAN written last
ModuleAnswersScan ==
    /\ pc = "scan.wait_ok"
    /\ mod_lines = <<>>
    /\ rx_log = <<>>
    /\ \E before, after \in {<<>>, <<LineEpandesc>> \o PanDescLines(LineChannel)} :
          mod_lines' = before \o <<LineOk>> \o after \o <<LineEvent("22")>>
    /\ UNCHANGED <<pending_message, message_buffer, address, property_map, written, op,
                   pc, phase, in_get_message, scan_i, pan, transaction_id, ret, result,
                   entry_buffer, read_msgs, rx_log, read_error, little_endian,
                   serialVars, codecVars, runs, parserObs>>

SpecScan ==
    /\ InitScan
    /\ [][\/ ModuleAnswersScan
          \/ WaitFnEnter
          \/ (mod_lines # <<>> /\ ReadLine)
          \/ ReadError
          \/ Ret_scan_wait_ok
          \/ Ret_scan_wait_fn]_vars
    /\ WF_vars(ModuleAnswersScan)
    /\ WF_vars(WaitFnEnter)
    /\ \/ []<>~(pc \in WaitSites /\ phase = "loop" /\ mod_lines # <<>>)
       \/ []<><<ReadLine>>_vars
    /\ WF_vars(Ret_scan_wait_ok)
    /\ WF_vars(Ret_scan_wait_fn)

-----------------------------------------------------------------------------
(* The parser on its own: add_line fed any sequence of lines *)

\* the position of a line in an EPANDESC block as the module sends it: the header is
\* line 1, the six lines after it are lines 2 to 7; 0 for a line outside a block
NextBlockPos(pos, line) ==
    IF pos \in 1..6 THEN pos + 1
    ELSE IF Head(Trim(line)) = "EPANDESC" THEN 1
    ELSE 0

ParserLines ==
    {LineEmpty, LineOk, LineEvent("22"), LineEpandesc, LineChannel, LinePanId, LineAddr}

clientVars == <<message_buffer, address, property_map, written, op, pc, phase,
                in_get_message, scan_i, pan, transaction_id, ret, result, mod_lines,
                entry_buffer, read_msgs, rx_log, read_error, little_endian, runs>>

AddLine ==
    \E line \in ParserLines :
        \E r \in {add_line(pending_message, line)} :
        /\ pending_message' = r.pending
        /\ parse_result' = r.result
        /\ last_line' = line
        /\ block_pos' = NextBlockPos(block_pos, line)
        /\ UNCHANGED <<clientVars, serialVars, codecVars>>

InitP == InitParser /\ InitClient /\ InitSerial /\ InitCodec /\ little_endian = TRUE
NextP == AddLine
SpecParser == InitP /\ [][NextP]_vars

\* EVENT lines with none, one, two or three tokens after the name: event codes that are
\* an EventKind, that are not, and one that is no hex number; addresses that parse and
\* that do not.  With them the one-line messages OK, FAIL and EVER, an unknown name and
\* the empty line.  ERXUDP lines with eight, nine and ten tokens: addresses and ports
\* that parse and that do not, a length that is the length of the payload, one that is
\* not and one that is no hex number, a port too large for a u16, and payloads that are
\* hex text, that have an odd number of characters and that are no hex text.
EventLines ==
    LET Codes == {"21", "22", "23", "24", "25", "20", "02", "ZZ"}
        Addrs == {Addr1, Addr2, "FE80", "ZZ"}
        Params == {"02", "00"}
        Lengths == {"0012", "0010", "0001", "ZZ"}
        Payloads == {HexNotify, HexMapAT1, "ZZ", "108"}
        RxUdp == {<<"ERXUDP", s, d, sp, dp, "C0F9450040213077", "1", l, x>> :
                      s \in {Addr2, "FE80"}, d \in {Addr1, "ZZ"},
                      sp \in {"0E1A", "10000"}, dp \in {"0E1A", "ZZ"},
                      l \in Lengths, x \in Payloads}
    IN {<<"EVENT">>}
       \cup RxUdp
       \cup {SubSeq(l, 1, 8) : l \in RxUdp}
       \cup {Append(l, "00") : l \in RxUdp}
       \cup {<<"EVENT", hh>> : hh \in Codes}
       \cup {<<"EVENT", hh, a>> : hh \in Codes, a \in Addrs}
       \cup {<<"EVENT", hh, a, q>> : hh \in Codes, a \in Addrs, q \in Params}
       \cup {LineEmpty, LineOk, LineFail, LineEver, LineUnknown}

\* add_line on one of the lines above; the call does not return when the parser panics
AddEventLine ==
    \E line \in EventLines :
        \E r \in {add_line(pending_message, line)} :
        /\ pending_message' = r.pending
        /\ parse_result' = r.result
        /\ last_line' = line
        /\ block_pos' = NextBlockPos(block_pos, line)
        /\ UNCHANGED <<clientVars, serialVars, codecVars>>

SpecEvent == InitP /\ [][AddEventLine]_vars

-----------------------------------------------------------------------------
(* Two wait_fn calls side by side.  Both start with the same message_buffer and are given
   the same read_line results; each is made at a place of its own in the client and with
   the parser as an earlier wait left it: idle, or holding the start of an EPANDESC
   block that a get_properties that timed out had begun to read. *)

MaxReads == 2

WaitFnTwice ==
    LET Line(l) == [err |-> "none", line |-> l]
        Results == {Line(l) : l \in {LineOk, LineFail, LineEmpty, LineEvent("22"),
                                      LineEvent("25"), LinePairId}}
                   \cup {[err |-> "TimedOut", line |-> <<>>]}
        Sites == {"set_password", "scan.wait_ok", "scan.wait_fn", "join.wait_fn"}
        Buffers == {<<>>, <<MsgOk>>,
                    <<SerialMessage_parse(<<LineEvent("22")>>).value, MsgOk>>}
        Pendings == {<<>>, <<LineEpandesc>>,
                     <<LineEpandesc>> \o SubSeq(PanDescLines(LineChannel), 1, 5)}
    IN /\ ~runs.done
       /\ \E sa, sb \in Sites, pa, pb \in Pendings, buf \in Buffers,
             reads \in UNION {[1..n -> Results] : n \in 0..MaxReads} :
             runs' = [done |-> TRUE, buffer |-> buf, reads |-> reads,
                      a |-> [site |-> sa, pending |-> pa,
                             out |-> wait_fn(buf, pa, sa, reads, FALSE)],
                      b |-> [site |-> sb, pending |-> pb,
                             out |-> wait_fn(buf, pb, sb, reads, FALSE)]]
       /\ UNCHANGED <<pending_message, parserObs, message_buffer, address, property_map,
                      written, op, pc, phase, in_get_message, scan_i, pan,
                      transaction_id, ret, result, mod_lines, entry_buffer, read_msgs,
                      rx_log, read_error, little_endian, serialVars, codecVars>>

SpecRuns == InitP /\ [][WaitFnTwice]_vars

-----------------------------------------------------------------------------
(* The serial connection on its own: read_line on a port that has received the bytes
   of some lines, each followed by CR LF, and hands them out in chunks of any size.
   The lines are "", "1", "12", .. as in the tests of port.rs. *)

MaxLines == 2
MaxLineLen == 2
BufSize == 4

InitR ==
    /\ InitParser /\ InitClient /\ InitCodec /\ little_endian = TRUE
    /\ sent_lines \in UNION {[1..k -> {[i \in 1..n |-> 48 + i] : n \in 0..MaxLineLen}]
                               : k \in 0..MaxLines}
    /\ port = Flatten([k \in 1..Len(sent_lines) |-> sent_lines[k] \o <<CR, LF>>])
    /\ read_buffer = Buffer_new(BufSize)
    /\ txt = <<>>
    /\ read_lines = <<>>
    /\ called = NoCall

\* one turn of the loop in read_line; when the buffer is used up the reader is called and
\* returns the next n bytes of the port, as many as it likes and the buffer can take
ReadLineTurn ==
    \E n \in 0..(IF Len(port) < BufSize THEN Len(port) ELSE BufSize) :
        \E r \in {read_line_turn(read_buffer, txt, SubSeq(port, 1, n))} :
        /\ has_left(read_buffer) => n = 0
        /\ port' = SubSeq(port, n + 1, Len(port))
        /\ read_buffer' = r.buffer
        /\ txt' = r.txt
        /\ read_lines' = read_lines \o r.returned
        /\ UNCHANGED <<sent_lines, called, pending_message, parserObs, clientVars,
                       codecVars>>

SpecReader == InitR /\ [][ReadLineTurn]_vars

\* The Buffer on its own: fill_buf, read_to_lf and get_remain called in any order.  The
\* reader of fill_buf returns the next n bytes of the port, or fails.
BufferCall ==
    /\ \/ \E n \in 0..(IF Len(port) < BufSize THEN Len(port) ELSE BufSize) :
             \E r \in {fill_buf(read_buffer, SubSeq(port, 1, n))} :
             /\ read_buffer' = r.buffer
             /\ port' = IF r.read THEN SubSeq(port, n + 1, Len(port)) ELSE port
             /\ called' = [NoCall EXCEPT !.fn = "fill_buf", !.ok = r.ok, !.num = r.num,
                                         !.err = IF r.ok THEN "" ELSE "DataLeftError",
                                         !.read = r.read]
       \/ /\ ~has_left(read_buffer)
          /\ called' = [NoCall EXCEPT !.fn = "fill_buf", !.err = "IoError", !.read = TRUE]
          /\ UNCHANGED <<read_buffer, port>>
       \/ \E r \in {read_to_lf(read_buffer)} :
             /\ read_buffer' = r.buffer
             /\ called' = [NoCall EXCEPT !.fn = "read_to_lf", !.ok = r.some, !.bin = r.bin]
             /\ port' = port
       \/ \E r \in {get_remain(read_buffer)} :
             /\ read_buffer' = r.buffer
             /\ called' = [NoCall EXCEPT !.fn = "get_remain", !.ok = r.some, !.bin = r.bin]
             /\ port' = port
    /\ UNCHANGED <<sent_lines, txt, read_lines, pending_message, parserObs, clientVars,
                   codecVars>>

SpecBuffer == InitR /\ [][BufferCall]_vars

-----------------------------------------------------------------------------
(* The codec on its own: a packet is dumped, the bytes are cut short, changed in one
   place or followed by more bytes, and what is left is parsed as a packet of smart-meter
   properties; or a property-map descriptor is parsed *)

MaxProps == 2
MaxEpcs == 3

\* the bytes b after the damage d
Damaged(b, d) ==
    CASE d.kind = "truncate" -> SubSeq(b, 1, d.at)
      [] d.kind = "set" -> [b EXCEPT ![d.at] = d.byte]
      [] d.kind = "pad" -> b \o d.bytes
      [] OTHER -> b

InitPacket ==
    LET Props == {[epc |-> InstantaneousElectricPower, data |-> <<0, 0, 2, 14>>],
                  [epc |-> UnitForCumulativeElectricEnergy, data |-> <<1>>],
                  [epc |-> NormalDirectionCumulativeElectricEnergy, data |-> <<>>]}
        Packets ==
            {EchonetPacket_new(tid, [source_object |-> o[1], destination_object |-> o[2],
                                     echonet_service |-> s, properties |-> ps]) :
                tid \in {1, 4660},
                o \in {<<SmartMeter, HemsController>>, <<HemsController, SmartMeter>>},
                s \in {ReadPropertyRequest, ReadPropertyResponse},
                ps \in UNION {[1..k -> Props] : k \in 0..MaxProps}}
        Damages(n) ==
            {[kind |-> "none", at |-> 0, byte |-> 0, bytes |-> <<>>]}
            \cup {[kind |-> "truncate", at |-> k, byte |-> 0, bytes |-> <<>>] : k \in 0..(n - 1)}
            \cup {[kind |-> "set", at |-> i, byte |-> v, bytes |-> <<>>] :
                      i \in 1..n, v \in {0, 17, 159, 255}}
            \cup {[kind |-> "pad", at |-> 0, byte |-> 0, bytes |-> x] :
                      x \in {<<0>>, <<InstantaneousCurrent, 4, 0>>}}
        TestLong == <<11, 1, 1, 9, 0, 0, 0, 1, 1, 1, 3, 3, 3, 3, 3, 3>>
        Bitmaps == {TestLong, [i \in 1..16 |-> 1], [i \in 1..16 |-> IF i = 1 THEN 3 ELSE 1],
                    [i \in 1..16 |-> 128], [i \in 1..16 |-> 0]}
        Descriptors ==
            {<<>>}
            \cup {<<n>> \o x : n \in {0, 1, 2, 3, 15},
                               x \in UNION {[1..k -> {128, 231}] : k \in 0..MaxEpcs}}
            \cup {<<n>> \o x : n \in {16, 17, 22},
                               x \in UNION {{m, SubSeq(m, 1, 15), m \o <<0>>} : m \in Bitmaps}}
    IN /\ InitParser /\ InitClient /\ InitSerial
       /\ little_endian \in BOOLEAN
       /\ \/ /\ sent_packet \in {Some(q) : q \in Packets}
             /\ damage \in Damages(Len(EchonetPacket_dump(sent_packet.v, little_endian)))
             /\ wire = <<>>
          \/ /\ sent_packet = None
             /\ damage = [kind |-> "none", at |-> 0, byte |-> 0, bytes |-> <<>>]
             /\ wire \in Descriptors
       /\ parsed = NotYet
       /\ reading = [fn |-> "none"]

Dump ==
    /\ sent_packet.some
    /\ wire = <<>>
    /\ wire' = EchonetPacket_dump(sent_packet.v, little_endian)
    /\ UNCHANGED <<sent_packet, damage, parsed, reading, pending_message, parserObs,
                   clientVars, serialVars>>

Parse ==
    /\ sent_packet.some
    /\ wire # <<>>
    /\ parsed = NotYet
    /\ parsed' = EchonetPacket_parse(Damaged(wire, damage), EchonetSmartMeterProperty,
                                     little_endian)
    /\ UNCHANGED <<sent_packet, damage, wire, reading, pending_message, parserObs,
                   clientVars, serialVars>>

ParseMap ==
    /\ ~sent_packet.some
    /\ parsed = NotYet
    /\ parsed' = PropertyMap_parse(wire)
    /\ UNCHANGED <<sent_packet, damage, wire, reading, pending_message, parserObs,
                   clientVars, serialVars>>

NextCodec == Dump \/ Parse \/ ParseMap
SpecCodec == InitPacket /\ [][NextCodec]_vars

-----------------------------------------------------------------------------
(* What the client makes of a MAC address and of the reply to a request: get_ip on
   every first byte of a MAC, and get_power_consumption and
   get_cumulative_electric_energy on replies whose properties have data of the right
   length, of other lengths and none at all.  The reply comes as bytes and is parsed as
   wait_echonet_packet parses it. *)

InitReply ==
    LET Prop(e, d) == [epc |-> e, data |-> d]
        Power == {<<0, 0, 2, 14>>, <<255, 255, 255, 254>>, <<128, 0, 0, 0>>,
                  <<2, 14>>, <<>>, <<0, 0, 0, 2, 14>>}
        Energy == {<<0, 0, 2, 14>>, <<2, 14>>}
        Units == {<<b>> : b \in {0, 1, 2, 3, 4, 5, 9, 10, 11, 12, 13, 14, 255}}
                 \cup {<<>>, <<1, 0>>, <<5, 1>>}
        Coefficients == {<<0, 0, 0, 1>>, <<0, 0, 0, 10>>, <<1>>}
        Properties ==
            {<<>>}
            \cup {<<Prop(InstantaneousElectricPower, d)>> : d \in Power}
            \cup {<<Prop(NormalDirectionCumulativeElectricEnergy, b),
                    Prop(UnitForCumulativeElectricEnergy, u), Prop(Coefficient, c)>> :
                      b \in Energy, u \in Units, c \in Coefficients}
            \cup {<<Prop(NormalDirectionCumulativeElectricEnergy, b), Prop(Coefficient, c)>> :
                      b \in Energy, c \in Coefficients}
        Replies ==
            {EchonetPacket_new(1, [source_object |-> SmartMeter,
                                   destination_object |-> HemsController,
                                   echonet_service |-> ReadPropertyResponse,
                                   properties |-> ps]) : ps \in Properties}
        Macs == {<<b>> \o x : b \in 0..255,
                               x \in {<<29, 18, 144, 18, 52, 86, 120>>,
                                      <<52, 86, 120, 144, 171, 205, 239>>}}
    IN /\ InitParser /\ InitClient /\ InitSerial
       /\ little_endian \in BOOLEAN
       /\ damage = [kind |-> "none", at |-> 0, byte |-> 0, bytes |-> <<>>]
       /\ \/ sent_packet \in {Some(q) : q \in Replies} /\ wire = <<>>
          \/ sent_packet = None /\ wire \in Macs /\ little_endian
       /\ parsed = NotYet
       /\ reading = [fn |-> "none"]

GetIp ==
    /\ ~sent_packet.some
    /\ reading.fn = "none"
    /\ reading' = [fn |-> "get_ip", r |-> get_ip(wire)]
    /\ UNCHANGED <<sent_packet, damage, wire, parsed, pending_message, parserObs,
                   clientVars, serialVars>>

\* get_power_consumption once get_properties has returned the packet
GetPowerConsumption ==
    /\ parsed.ok
    /\ reading.fn = "none"
    /\ reading' = [fn |-> "get_power_consumption", r |-> power_of_packet(parsed.v)]
    /\ UNCHANGED <<sent_packet, damage, wire, parsed, pending_message, parserObs,
                   clientVars, serialVars>>

\* get_cumulative_electric_energy once get_properties has returned the packet
GetCumulativeElectricEnergy ==
    /\ parsed.ok
    /\ reading.fn = "none"
    /\ reading' = [fn |-> "get_cumulative_electric_energy",
                   r |-> energy_of_packet(parsed.v)]
    /\ UNCHANGED <<sent_packet, damage, wire, parsed, pending_message, parserObs,
                   clientVars, serialVars>>

SpecReply ==
    InitReply /\ [][Dump \/ Parse \/ GetIp \/ GetPowerConsumption
                       \/ GetCumulativeElectricEnergy]_vars

\* C3: add_line returns a PanDesc message only from the call that is given the seventh
\* line of an EPANDESC block, and the calls given lines one to six of the block each
\* return More (no message).
C3_PanDescOnlyAtSeventhLine ==
    /\ (parse_result.tag = "Ok" /\ IsPanDesc(parse_result.value)) => block_pos = 7
    /\ block_pos \in 1..6 => parse_result.tag = "More"

C3_Witness ==
    /\ block_pos = 7
    /\ parse_result.tag = "Ok"
    /\ IsPanDesc(parse_result.value)

\* C4: a complete line that is not part of an EPANDESC block (OK, EVENT 22 ..)
\* is answered with its own message by add_line whenever it arrives, also while a block
\* is being collected.
C4_InterveningLineDelivered ==
    last_line \in {LineOk, LineEvent("22")}
        => parse_result = SerialMessage_parse(<<last_line>>)

-----------------------------------------------------------------------------
(* The client: wait_fn *)

HasMatch(buf, p) == \E i \in 1..Len(buf) : Pred(p, buf[i])

FirstMatch(buf, p) ==
    CHOOSE i \in 1..Len(buf) : Pred(p, buf[i]) /\ \A j \in 1..(i - 1) : ~Pred(p, buf[j])

\* a wait_fn call has just returned
Returned == pc \in WaitSites /\ phase = "ret"

\* C1: when no message in the buffer at entry satisfies pred and wait_fn returns a
\* message, that message is the last one read in the call and the first one read that
\* satisfies pred; the messages read before it are in message_buffer, after the messages
\* that were there at entry and in the order they arrived, and the returned message is not.
C1_ReturnsFirstReadMatch ==
    (Returned /\ ret.ok /\ ~HasMatch(entry_buffer, WaitPred(pc)))
        => /\ read_msgs # <<>>
           /\ ret.v = read_msgs[Len(read_msgs)]
           /\ Pred(WaitPred(pc), ret.v)
           /\ \A k \in 1..(Len(read_msgs) - 1) : ~Pred(WaitPred(pc), read_msgs[k])
           /\ message_buffer = entry_buffer \o SubSeq(read_msgs, 1, Len(read_msgs) - 1)

C1_Witness ==
    /\ Returned /\ ret.ok
    /\ ~HasMatch(entry_buffer, WaitPred(pc))
    /\ entry_buffer # <<>>
    /\ Len(read_msgs) >= 2

-----------------------------------------------------------------------------
(* The client: scan and join *)

\* this step wrote SKSCAN
WroteScan == pc' = "scan.wait_ok" /\ phase' = "call"

\* places in log of the PanDesc messages that came before the first EVENT 22
PanDescsBefore22(log) ==
    {k \in 1..Len(log) :
        /\ IsPanDesc(log[k])
        /\ \A j \in 1..k : ~IsEvent(log[j], FinishedActiveScan)}

\* C5: when the wait for EVENT 22 of a scan duration has returned and a PanDesc was
\* received after the SKSCAN and before the EVENT 22, before or after the OK, scan
\* returns that PanDesc and does not scan again.
C5_ScanReturnsPanDesc ==
    [][(pc = "scan.wait_fn" /\ phase = "ret" /\ ret.ok /\ PanDescsBefore22(rx_log) # {})
          => /\ pan'.some
             /\ \E k \in PanDescsBefore22(rx_log) : pan'.v = rx_log[k].event
             /\ ~WroteScan]_vars

C5_Witness ==
    /\ op = "connect" /\ pc = "idle"
    /\ pan.some
    /\ Len(rx_log) = 3
    /\ IsPanDesc(rx_log[1]) /\ pan.v = rx_log[1].event
    /\ rx_log[2] = MsgOk
    /\ IsEvent(rx_log[3], FinishedActiveScan)

\* C6: the SKSCAN commands of one scan have the durations 4, 5, .., 9 in this order;
\* a duration after the first is sent only when the wait for OK and then the wait for
\* EVENT 22 of the duration before it have returned and no PanDesc is in the buffer;
\* and once scan has a PanDesc no SKSCAN is sent.
C6_ScanDurations ==
    /\ [](\A k \in 1..Len(written) :
             written[k].cmd = "SKSCAN" => written[k].duration = 3 + k /\ 3 + k <= 9)
    /\ [][(WroteScan /\ Len(written') > 1)
             => /\ pc = "scan.wait_fn" /\ phase = "ret" /\ ret.ok
                /\ IsEvent(ret.v, FinishedActiveScan)
                /\ \E j \in 1..Len(rx_log) : rx_log[j] = MsgOk
                /\ written' = Append(written, CmdScan(written[Len(written)].duration + 1))
                /\ \A j \in 1..Len(message_buffer) : ~IsPanDesc(message_buffer[j])]_vars
    /\ [][(pan.some \/ pan'.some) => ~WroteScan]_vars

C6_Witness ==
    /\ pc = "scan.wait_fn" /\ phase = "ret"
    /\ Len(written) = 6
    /\ written[6] = [cmd |-> "SKSCAN", duration |-> 9]

\* C7: join writes SKJOIN with the address; it waits for OK, and a FAIL read in that
\* wait is a command error; after the OK it returns the EVENT 25 it reads, or a command
\* error when an EVENT 24 or a FAIL is read before an EVENT 25, and it waits on while
\* neither has been read.
C7_Join ==
    /\ pc \in {"join.wait_ok", "join.wait_fn"}
          => written = <<[cmd |-> "SKJOIN", addr |-> ipv6_addr_full_string(get_ip(pan.v.addr))]>>
    /\ (pc = "join.wait_ok" /\ phase = "ret")
          => IF ret.ok THEN ret.v = MsgOk
             ELSE ret.kind = "CommandError" /\ read_msgs[Len(read_msgs)].type = "Fail"
    /\ pc = "join.wait_fn" => \E j \in 1..Len(rx_log) : rx_log[j] = MsgOk
    /\ (pc = "join.wait_fn" /\ phase = "ret")
          => IF ret.ok THEN IsEvent(ret.v, EstablishedPanaConnection)
             ELSE /\ ret.kind = "CommandError"
                  /\ LET m == read_msgs[Len(read_msgs)] IN
                     m.type = "Fail" \/ IsEvent(m, ErrorOnPanaConnection)
                  /\ \A k \in 1..Len(read_msgs) :
                        ~IsEvent(read_msgs[k], EstablishedPanaConnection)
    /\ (pc = "join.wait_fn" /\ phase = "loop")
          => \A k \in 1..Len(read_msgs) :
                /\ read_msgs[k].type # "Fail"
                /\ ~IsEvent(read_msgs[k], ErrorOnPanaConnection)
                /\ ~IsEvent(read_msgs[k], EstablishedPanaConnection)

C7_Witness ==
    /\ pc = "join.wait_fn" /\ phase = "ret"
    /\ ~ret.ok
    /\ ret.s = <<"failed to connect to pana">>
    /\ Len(read_msgs) = 2
    /\ IsEvent(read_msgs[2], ErrorOnPanaConnection)

\* the waits a command is followed by
CommandSites ==
    {"ensure_echoback_off", "get_version.wait_ok", "set_password", "set_bid",
     "scan.wait_ok", "set_register.S2", "set_register.S3", "join.wait_ok", "send_udp"}

\* C10: message_buffer is empty whenever a command has just been written.
C10_BufferEmptyAtEveryWrite ==
    [][(phase' = "call" /\ pc' \in CommandSites) => message_buffer' = <<>>]_vars

-----------------------------------------------------------------------------
(* The client: get_properties *)

\* the property list of the operation is refused by the map
NotInMap ==
    \/ ~property_map.some
    \/ \E k \in 1..Len(RequestedProperties(op)) :
          RequestedProperties(op)[k] \notin property_map.v.properties

\* C8: a read of properties other than the property map, made while property_map is
\* None or names an EPC that is not in the map, ends in the command error of
\* check_property_exists with nothing written, and never waits for an answer.
C8_RefusedWithoutSending ==
    (op \in {"get_power_consumption", "get_cumulative_electric_energy"} /\ NotInMap)
        => /\ pc = "idle"
           /\ result = IF property_map.some
                       THEN Err("CommandError", <<"Property is not implemented.">>)
                       ELSE Err("CommandError", <<"property map is not initialized.">>)
           /\ written = <<>>

C8_Witness ==
    /\ op = "get_cumulative_electric_energy" /\ pc = "idle"
    /\ property_map.some
    /\ InstantaneousElectricPower \in property_map.v.properties
    /\ NormalDirectionCumulativeElectricEnergy \notin property_map.v.properties
    /\ result = Err("CommandError", <<"Property is not implemented.">>)

\* C9: the message wait_echonet_packet returns is a received UDP payload that decodes,
\* carries the two transaction id bytes of the SKSENDTO just written, and has the bytes
\* of SmartMeter (02 88 01) as source and of HemsController (05 FF 01) as destination.
C9_OnlyTheAnswer ==
    (pc = "wait_echonet_packet" /\ phase = "ret" /\ ret.ok)
        => /\ IsRxUdp(ret.v)
           /\ LET data == ret.v.event.data
                  request == written[Len(written)].data
                  e == EchonetPacket_parse(data, PropertyClass(op), little_endian)
              IN /\ SubSeq(data, 3, 4) = SubSeq(request, 3, 4)
                 /\ SubSeq(data, 5, 7) = <<2, 136, 1>>
                 /\ SubSeq(data, 8, 10) = <<5, 255, 1>>
                 /\ e.ok
                 /\ e.v.transaction_id = transaction_id

\* a packet from the meter with another transaction id and a packet with other objects
\* were read and passed over before the answer
C9_Witness ==
    /\ pc = "wait_echonet_packet" /\ phase = "ret" /\ ret.ok
    /\ Len(message_buffer) = 2
    /\ \E k \in 1..2 : /\ IsRxUdp(message_buffer[k])
                       /\ SubSeq(message_buffer[k].event.data, 5, 7) = <<5, 255, 1>>
    /\ \E k \in 1..2 : /\ IsRxUdp(message_buffer[k])
                       /\ SubSeq(message_buffer[k].event.data, 5, 7) = <<2, 136, 1>>
                       /\ SubSeq(message_buffer[k].event.data, 3, 4)
                             # SubSeq(ret.v.event.data, 3, 4)

-----------------------------------------------------------------------------
(* The client: errors and timeouts of a wait *)

\* the client is inside the reading loop of a wait_fn call
Waiting == pc \in WaitSites /\ phase = "loop"

\* C11: after read_line has returned an I/O error that is not a timeout, or a UTF-8
\* error, the client is not waiting on: the wait has ended.
C11_ReadErrorEndsTheWait ==
    read_error \in {"IoError", "Utf8Error"} => ~Waiting

\* the message read last in the current wait_fn call
LastRead == read_msgs[Len(read_msgs)]

\* C12: when the message read last in a wait_fn call does not satisfy pred and err_if
\* gives a reason for it, the call has returned CommandError with that reason; in a
\* wait for OK a FAIL that was read is the last message read and the call has returned
\* CommandError with the text of the FAIL.
C12_ErrIfEndsTheWait ==
    /\ (pc \in WaitSites /\ phase \in {"loop", "ret"} /\ read_msgs # <<>>
           /\ ~Pred(WaitPred(pc), LastRead) /\ ErrIf(pc, LastRead).some)
          => phase = "ret" /\ ret = Err("CommandError", ErrIf(pc, LastRead).v)
    /\ (pc \in WaitSites /\ phase \in {"loop", "ret"} /\ WaitPred(pc) = "Ok")
          => \A k \in 1..Len(read_msgs) :
                read_msgs[k].type = "Fail"
                    => /\ k = Len(read_msgs)
                       /\ phase = "ret"
                       /\ ret = Err("CommandError", read_msgs[k].s)

C12_Witness ==
    /\ pc = "set_password" /\ phase = "ret"
    /\ ret = Err("CommandError", <<"ER04">>)
    /\ Len(read_msgs) = 2
    /\ read_msgs[2].type = "Fail"
    /\ \A k \in 1..Len(entry_buffer \o read_msgs) : (entry_buffer \o read_msgs)[k] # MsgOk

SkippedLine == in_get_message /\ pending_message = <<>>

\* C14: in a wait for OK, a step that reads an unclassifiable line or in which read_line
\* times out leaves the client in the same wait with message_buffer and the messages
\* read as they were; while the wait goes on no OK has been read, and when the wait
\* returns a message it read, that message is OK, the first OK read.
C14_WaitOkSkips ==
    /\ [][(Waiting /\ WaitPred(pc) = "Ok" /\ (SkippedLine' \/ read_error' = "TimedOut"))
             => /\ pc' = pc /\ phase' = "loop"
                /\ message_buffer' = message_buffer
                /\ read_msgs' = read_msgs]_vars
    /\ []((Waiting /\ WaitPred(pc) = "Ok")
             => \A k \in 1..Len(read_msgs) : read_msgs[k] # MsgOk)
    /\ []((Returned /\ WaitPred(pc) = "Ok" /\ ret.ok /\ read_msgs # <<>>)
             => /\ ret = Ok(MsgOk)
                /\ LastRead = MsgOk
                /\ \A k \in 1..(Len(read_msgs) - 1) : read_msgs[k] # MsgOk)

\* an echoed command has just been skipped in the wait for the OK of SKSETPWD, after a
\* message that is not OK was read and buffered
C14_Witness ==
    /\ pc = "set_password" /\ phase = "loop"
    /\ SkippedLine
    /\ Len(read_msgs) = 1
    /\ message_buffer = read_msgs

-----------------------------------------------------------------------------
(* The client: the address and the order of connect *)

\* C15: address is None when the client is made, and the only step that changes it is
\* the one in which connect has its join returned Ok: it stores the address made of
\* the PanDesc.  Every other step, a failing step of connect among them, leaves it.
C15_AddressOnlyAfterJoin ==
    /\ address = None
    /\ [][address' # address
             => /\ op = "connect" /\ pc = "join.wait_fn" /\ phase = "ret" /\ ret.ok
                /\ IsEvent(ret.v, EstablishedPanaConnection)
                /\ address' = Some(get_ip(pan.v.addr))]_vars
    /\ []((op \in {"none", "new"} \/ pc \in {"start", "failed"}) => address = None)

\* a connect has failed in join and there is no address
C15_Witness ==
    /\ op = "connect" /\ pc = "idle"
    /\ result = Err("CommandError", <<"failed to connect to pana">>)
    /\ address = None

\* the operations that go through get_properties
PropertyOps == {"get_property_map", "get_power_consumption", "get_cumulative_electric_energy"}

\* C16: a call that comes to send_udp while address is None (its property list passed
\* check_property_exists) returns the command error "address is not set", writes no
\* command and leaves message_buffer as it was.
C16_NoAddressNoWrite ==
    [][(/\ pc = "idle" /\ op' \in PropertyOps
        /\ address = None
        /\ check_property_exists(property_map, RequestedProperties(op')).ok)
          => /\ pc' = "idle"
             /\ result' = Err("CommandError", <<"address is not set">>)
             /\ written' = <<>>
             /\ message_buffer' = message_buffer]_vars

\* get_property_map was called before any connect, with messages in the buffer
C16_Witness ==
    /\ op = "get_property_map" /\ pc = "idle"
    /\ address = None
    /\ result = Err("CommandError", <<"address is not set">>)
    /\ written = <<>>
    /\ message_buffer # <<>>

\* this step entered the wait at site, after a write for the wait that follows a command
Entered(site) == pc' = site /\ phase' = "call"

\* the wait at site has returned Ok
Passed(site) == pc = site /\ phase = "ret" /\ ret.ok

\* the command written last
LastWritten == written[Len(written)]

\* C17: in a connect each command is written only from the return with Ok of the step
\* before it: SKSETPWD at the call, SKSETRBID after set_password, the first SKSCAN
\* after set_bid and a further SKSCAN after the EVENT 22 of the one before, SKSREG S2
\* after the EVENT 22 of a SKSCAN, SKSREG S3 after S2, SKJOIN after S3, and SKSENDTO
\* after the EVENT 25 of join, each wait for an event after the OK of its command; a
\* wait that returned an error ends connect with that error and nothing more is written.
C17_ConnectOrder ==
    [][op' = "connect"
         => /\ Entered("set_password")
                => pc = "idle" /\ LastWritten' = CmdSetPwd
            /\ Entered("set_bid")
                => Passed("set_password") /\ LastWritten' = CmdSetRbid
            /\ Entered("scan.wait_ok")
                => /\ Passed("set_bid") \/ Passed("scan.wait_fn")
                   /\ LastWritten'.cmd = "SKSCAN"
            /\ Entered("scan.wait_fn") => Passed("scan.wait_ok")
            /\ Entered("set_register.S2")
                => /\ Passed("scan.wait_fn")
                   /\ LastWritten'.cmd = "SKSREG" /\ LastWritten'.reg = "S2"
            /\ Entered("set_register.S3")
                => /\ Passed("set_register.S2")
                   /\ LastWritten'.cmd = "SKSREG" /\ LastWritten'.reg = "S3"
            /\ Entered("join.wait_ok")
                => Passed("set_register.S3") /\ LastWritten'.cmd = "SKJOIN"
            /\ Entered("join.wait_fn") => Passed("join.wait_ok")
            /\ Entered("send_udp")
                => Passed("join.wait_fn") /\ LastWritten'.cmd = "SKSENDTO"
            /\ Entered("wait_echonet_packet") => Passed("send_udp")
            /\ (op = "connect" /\ Returned /\ ~ret.ok)
                => pc' = "idle" /\ result' = ret /\ written' = written]_vars

\* connect has written the SKSENDTO of its property-map read
C17_Witness ==
    /\ op = "connect" /\ pc = "send_udp" /\ phase = "call"
    /\ Len(written) = 1
    /\ LastWritten.cmd = "SKSENDTO"
    /\ address.some

\* C18: scan returns ScanError only from the return of the wait for EVENT 22 of duration
\* 9 with no PanDesc in message_buffer, when the SKSCAN commands written are the six of
\* the durations 4 to 9; and from that return it does return ScanError, writing nothing.
C18_ScanErrorAfterSix ==
    /\ [][(result' = Err("ScanError", <<"pan not found">>) /\ result' # result)
             => /\ Passed("scan.wait_fn")
                /\ \A j \in 1..Len(message_buffer) : ~IsPanDesc(message_buffer[j])
                /\ written = [k \in 1..6 |-> CmdScan(3 + k)]
                /\ written' = written]_vars
    /\ [][(/\ Passed("scan.wait_fn") /\ Len(written) = 6
            /\ \A j \in 1..Len(message_buffer) : ~IsPanDesc(message_buffer[j]))
             => /\ pc' = "idle"
                /\ result' = Err("ScanError", <<"pan not found">>)
                /\ written' = written]_vars

C18_Witness ==
    /\ op = "connect" /\ pc = "idle"
    /\ result = Err("ScanError", <<"pan not found">>)
    /\ written = [k \in 1..6 |-> CmdScan(3 + k)]

C20_ErrOnLineOutsideBlock ==
    [][(pending_message # <<>> /\ last_line' \in {LineOk, LineEvent("22")})
          => parse_result'.tag = "Err"]_vars

\* C21: after every add_line call the parser holds a pending block exactly when the
\* call returned More; an empty line is answered with Empty only when no block was
\* pending, and a call made with no block pending classifies its line on its own.
C21_PendingIffMore ==
    [][/\ (pending_message' # <<>>) <=> (parse_result'.tag = "More")
       /\ (last_line' = LineEmpty /\ parse_result'.tag = "Empty") => pending_message = <<>>
       /\ (pending_message = <<>> /\ last_line' # LineEmpty)
             => parse_result' = SerialMessage_parse(<<last_line'>>)]_vars

\* an empty line arrives while a block is pending: the call returns More and the block,
\* now with the empty line, stays pending
C21_Witness ==
    /\ last_line = LineEmpty
    /\ parse_result.tag = "More"
    /\ pending_message = <<LineEpandesc, LineEmpty>>

\* C22 as stated: every add_line call returns one of Ok, Err, Empty and More, whatever
\* the line, also a line with fewer tokens than its format requires.
C22_AddLineAlwaysReturns ==
    last_line # <<>> => parse_result.tag \in {"Ok", "Err", "Empty", "More"}

\* C30: add_line on EVENT <hh> <ipv6> with or without a trailing parameter returns the
\* Event message of kind hh and that sender exactly when hh is 21, 22, 24 or 25 (hex) and
\* the address parses; with any other event code or address it returns Err.
C30_EventMessage ==
    (Len(last_line) \in {3, 4} /\ last_line[1] = "EVENT")
        => IF HexValue(last_line[2]) \in {33, 34, 36, 37}
              /\ last_line[3] \in {Addr1, Addr2}
           THEN parse_result =
                    ParseOk([type |-> "Event",
                             event |-> [type |-> "Event",
                                        kind |-> HexValue(last_line[2]),
                                        sender |-> last_line[3]]])
           ELSE parse_result.tag = "Err"

\* EVENT 21 with a trailing parameter gave the FinishedUdpSend event
C30_Witness ==
    /\ last_line = LineEventParam("21")
    /\ parse_result.tag = "Ok"
    /\ IsEvent(parse_result.value, FinishedUdpSend)

\* C23: for lines each followed by CR LF and handed out by the reader in chunks of any
\* size (also of size zero), the strings the read_line calls return are the lines, in
\* order and without CR LF: whatever has been returned is a prefix of the lines sent, and
\* once the port and the buffer are used up every line has been returned and no bytes wait
\* in txt.
C23_ReadLinesAreSentLines ==
    /\ Len(read_lines) <= Len(sent_lines)
    /\ \A k \in 1..Len(read_lines) : read_lines[k] = sent_lines[k]
    /\ (port = <<>> /\ read_buffer.pointer = read_buffer.end)
          => (read_lines = sent_lines /\ txt = <<>>)

\* two lines, the first not empty, have been returned, and the last chunk was a single LF:
\* the reader had split the CR of the last line from its LF
C23_Witness ==
    /\ Len(sent_lines) = 2
    /\ read_lines = sent_lines
    /\ sent_lines[1] # <<>>
    /\ read_buffer.end = 1
    /\ read_buffer.data[1] = LF

\* C24: a packet with header 10 81 that is dumped and parsed again, the bytes unchanged,
\* comes back as the same packet.
C24_ParseOfDumpIsPacket ==
    (sent_packet.some /\ parsed # NotYet /\ damage.kind = "none")
        => parsed = Ok(sent_packet.v)

\* a packet with transaction id 0x1234 and two properties came back on a little-endian
\* host
C24_Witness ==
    /\ sent_packet.some
    /\ damage.kind = "none"
    /\ little_endian
    /\ sent_packet.v.transaction_id = 4660
    /\ Len(sent_packet.v.data.properties) = 2
    /\ parsed = Ok(sent_packet.v)

\* C25 as stated: on every host dump emits the transaction id most significant byte
\* first in bytes 2 and 3, and parse reads it from them most significant byte first.
C25_TidBigEndian ==
    /\ (sent_packet.some /\ wire # <<>>)
          => SubSeq(wire, 3, 4) = <<sent_packet.v.transaction_id \div 256,
                                    sent_packet.v.transaction_id % 256>>
    /\ (sent_packet.some /\ parsed.ok)
          => parsed.v.transaction_id
                 = Damaged(wire, damage)[3] * 256 + Damaged(wire, damage)[4]

\* the offset after n complete properties with a known EPC that start at offset pos of b,
\* or -1 when b does not hold them
RECURSIVE DeclaredEnd(_, _, _)
DeclaredEnd(b, pos, n) ==
    IF n = 0 THEN pos
    ELSE IF pos + 2 > Len(b) THEN -1
    ELSE IF b[pos + 1] \notin EchonetSmartMeterProperty THEN -1
    ELSE IF pos + 2 + b[pos + 2] > Len(b) THEN -1
    ELSE DeclaredEnd(b, pos + 2 + b[pos + 2], n - 1)

\* C26: EchonetPacket::parse fails on fewer than 4 bytes, on EHD1 other than 0x10, on
\* EHD2 other than 0x81, on an Edata part of fewer than 8 bytes, on an unknown object
\* id, service code or EPC and when fewer complete properties are there than OPC says;
\* when it succeeds it returns OPC properties, and they and the header are what the
\* bytes up to the end of the last declared property say: bytes after it are ignored.
C26_ParseFailsOrTakesOpc ==
    (sent_packet.some /\ parsed # NotYet) =>
        /\ (\/ Len(Damaged(wire, damage)) < 4
            \/ Damaged(wire, damage)[1] # 16
            \/ Damaged(wire, damage)[2] # 129
            \/ Len(Damaged(wire, damage)) < 12
            \/ ObjectNum(SubSeq(Damaged(wire, damage), 5, 7)) \notin EchonetObject
            \/ ObjectNum(SubSeq(Damaged(wire, damage), 8, 10)) \notin EchonetObject
            \/ Damaged(wire, damage)[11] \notin EchonetService
            \/ DeclaredEnd(Damaged(wire, damage), 12, Damaged(wire, damage)[12]) = -1)
              => ~parsed.ok
        /\ parsed.ok
              => /\ Len(parsed.v.data.properties) = Damaged(wire, damage)[12]
                 /\ EchonetPacket_dump(parsed.v, little_endian)
                        = SubSeq(Damaged(wire, damage), 1,
                                 DeclaredEnd(Damaged(wire, damage), 12,
                                             Damaged(wire, damage)[12]))

\* the last byte of a packet of two properties is missing: parse fails
C26_Witness ==
    /\ sent_packet.some
    /\ Len(sent_packet.v.data.properties) = 2
    /\ damage.kind = "truncate"
    /\ damage.at = Len(wire) - 1
    /\ parsed = Err("ParseError", <<"less data length">>)

\* C27: a descriptor whose first byte n is 16 or more is accepted exactly when it has 17
\* bytes and the number of bits set in the 16 bytes after n is n; the set returned is
\* then the EPCs ((8 + j) << 4) | i of the bits j set in byte i.
C27_LongFormBitmap ==
    (~sent_packet.some /\ parsed # NotYet /\ wire # <<>> /\ wire[1] >= 16) =>
        IF Len(wire) # 17 THEN ~parsed.ok
        ELSE LET S == {x \in 128..255 :
                          (wire[(x % 16) + 2] \div (2 ^ ((x \div 16) - 8))) % 2 = 1}
             IN IF Cardinality(S) = wire[1]
                THEN parsed = Ok([properties |-> S])
                ELSE ~parsed.ok

\* the descriptor of the test parse_long gave its 22 EPCs, 0x87 and 0xB3 among them
C27_Witness ==
    /\ ~sent_packet.some
    /\ wire = <<22, 11, 1, 1, 9, 0, 0, 0, 1, 1, 1, 3, 3, 3, 3, 3, 3>>
    /\ parsed.ok
    /\ Cardinality(parsed.v.properties) = 22
    /\ {135, 179} \subseteq parsed.v.properties

\* C28 as stated: a descriptor whose first byte n is less than 16 is accepted only when
\* exactly n bytes follow n, and the set returned is those bytes.
C28_ShortFormCount ==
    (~sent_packet.some /\ parsed # NotYet /\ wire # <<>> /\ wire[1] < 16) =>
        /\ parsed.ok => Len(wire) = wire[1] + 1
        /\ parsed.ok => parsed.v.properties = {wire[k] : k \in 2..Len(wire)}

C31_RxUdpMessage ==
    (last_line # <<>> /\ last_line[1] = "ERXUDP")
        => IF /\ Len(last_line) = 9
              /\ last_line[2] \in {Addr1, Addr2} /\ last_line[3] \in {Addr1, Addr2}
              /\ HexValue(last_line[4]) \in 0..65535
              /\ HexValue(last_line[5]) \in 0..65535
              /\ HexValue(last_line[8]) \in 0..65535
              /\ HexDecode(last_line[9]) # <<-1>>
              /\ Len(HexDecode(last_line[9])) = HexValue(last_line[8])
           THEN parse_result =
                    ParseOk([type |-> "Event",
                             event |-> [type |-> "RxUdp",
                                        sender |-> last_line[2], dest |-> last_line[3],
                                        source_port |-> HexValue(last_line[4]),
                                        dest_port |-> HexValue(last_line[5]),
                                        data |-> HexDecode(last_line[9])]])
           ELSE parse_result.tag = "Err"

\* the ERXUDP line of the test of event.rs gave the message with its 18 bytes
C31_Witness ==
    /\ last_line = LineRxUdp("0012", HexNotify)
    /\ parse_result.tag = "Ok"
    /\ parse_result.value.event.data =
           <<16, 129, 0, 0, 14, 240, 1, 14, 240, 1, 115, 1, 213, 4, 1, 2, 136, 1>>

\* C32: fill_buf on a buffer that has unread bytes returns DataLeftError, does not call
\* the reader (the port keeps its bytes) and leaves pointer, end and data as they were.
C32_FillBufDataLeft ==
    [][(has_left(read_buffer) /\ called'.fn = "fill_buf")
          => /\ ~called'.ok
             /\ called'.err = "DataLeftError"
             /\ ~called'.read
             /\ port' = port
             /\ read_buffer' = read_buffer]_vars

\* fill_buf was refused while the buffer still held bytes and the port had more to give
C32_Witness ==
    /\ called.fn = "fill_buf"
    /\ called.err = "DataLeftError"
    /\ read_buffer.pointer = 1
    /\ read_buffer.end > 1
    /\ port # <<>>

\* C40: in every state 0 <= pointer <= end <= capacity; a read_to_lf that returns None
\* leaves pointer as it was; after get_remain has returned has_left is false.
C40_BufferBounds ==
    /\ [](/\ 0 <= read_buffer.pointer
          /\ read_buffer.pointer <= read_buffer.end
          /\ read_buffer.end <= Len(read_buffer.data)
          /\ Len(read_buffer.data) = BufSize)
    /\ [](called.fn = "get_remain" => ~has_left(read_buffer))
    /\ [][(called'.fn = "read_to_lf" /\ ~called'.ok)
              => read_buffer'.pointer = read_buffer.pointer]_vars

\* get_remain returned the bytes that follow a line in a buffer filled to its capacity
C40_Witness ==
    /\ called.fn = "get_remain"
    /\ called.ok
    /\ called.bin # <<>>
    /\ read_buffer.pointer = BufSize
    /\ \E i \in 1..(BufSize - 1) : read_buffer.data[i] = LF

\* C33: get_ip of an 8-byte MAC m is the 16 bytes FE 80 00 00 00 00 00 00 followed by m,
\* where of m[0] bit 0x02 is inverted and every other bit is kept; the MAC
\* 00 1D 12 90 12 34 56 78 gives FE80:0000:0000:0000:021D:1290:1234:5678.
C33_GetIp ==
    reading.fn = "get_ip"
        => /\ Len(reading.r) = 16
           /\ SubSeq(reading.r, 1, 8) = <<254, 128, 0, 0, 0, 0, 0, 0>>
           /\ SubSeq(reading.r, 10, 16) = SubSeq(wire, 2, 8)
           /\ reading.r[9] \div 4 = wire[1] \div 4
           /\ reading.r[9] % 2 = wire[1] % 2
           /\ (reading.r[9] \div 2) % 2 = 1 - ((wire[1] \div 2) % 2)
           /\ wire = <<0, 29, 18, 144, 18, 52, 86, 120>>
                 => reading.r = <<254, 128, 0, 0, 0, 0, 0, 0, 2, 29, 18, 144, 18, 52, 86, 120>>

\* get_ip was applied to a MAC whose first byte has bit 0x02 set, and cleared it
C33_Witness ==
    /\ reading.fn = "get_ip"
    /\ wire[1] = 18
    /\ reading.r[9] = 16

\* C34: get_power_consumption returns the big-endian signed number of the E7 data when
\* the data is 4 bytes long (00 00 02 0E gives 526) and an error when it has any other
\* length; get_cumulative_electric_energy, which reads E0 with get_u32, returns the
\* big-endian number of 4 bytes of E0 data (unit 00, coefficient 1) and an error when the
\* E0 data has another length.
C34_FourBytesBigEndian ==
    LET SignedBe(d) ==
            (((IF d[1] >= 128 THEN d[1] - 256 ELSE d[1]) * 256 + d[2]) * 256 + d[3]) * 256
            + d[4]
        Data(epc) == get_property(parsed.v, epc).v.data
        Has(epc) == get_property(parsed.v, epc).some
        E7 == InstantaneousElectricPower
        E0 == NormalDirectionCumulativeElectricEnergy
    IN /\ (reading.fn = "get_power_consumption" /\ Has(E7))
            => /\ Len(Data(E7)) = 4 => reading.r = Ok(SignedBe(Data(E7)))
               /\ Len(Data(E7)) # 4 => ~reading.r.ok
               /\ Data(E7) = <<0, 0, 2, 14>> => reading.r = Ok(526)
       /\ (reading.fn = "get_cumulative_electric_energy" /\ Has(E0))
            => /\ Len(Data(E0)) # 4
                    => reading.r = Err("CommandError", <<"malformed property">>)
               /\ (/\ Len(Data(E0)) = 4
                   /\ Has(UnitForCumulativeElectricEnergy)
                   /\ Data(UnitForCumulativeElectricEnergy) = <<0>>
                   /\ Has(Coefficient)
                   /\ Data(Coefficient) = <<0, 0, 0, 1>>)
                    => reading.r = Ok([num |-> SignedBe(Data(E0)), den |-> 1])

\* get_power_consumption returned an error for a reply with five bytes of E7 data
C34_Witness ==
    /\ reading.fn = "get_power_consumption"
    /\ get_property(parsed.v, InstantaneousElectricPower).some
    /\ Len(get_property(parsed.v, InstantaneousElectricPower).v.data) = 5
    /\ reading.r = Err("CommandError", <<"malformed property">>)

\* C37: get_cumulative_electric_energy returns an error value for every reply whose E1
\* data is not one of the single bytes 00, 01, 02, 03, 04, 0A, 0B, 0C, 0D, also when the
\* E1 property has no data bytes.
C37_BadUnitIsError ==
    (/\ reading.fn = "get_cumulative_electric_energy"
     /\ get_property(parsed.v, UnitForCumulativeElectricEnergy).some
     /\ get_property(parsed.v, UnitForCumulativeElectricEnergy).v.data
            \notin {<<b>> : b \in {0, 1, 2, 3, 4, 10, 11, 12, 13}})
        => (~reading.r.ok /\ reading.r.kind = "CommandError")

\* C36: when an EVENT 24 or a FAIL has been received after SKJOIN was written and before
\* any EVENT 25, also before the OK that answers SKJOIN, join returns a command error.
C36_JoinFailsOnEarlyError ==
    (/\ pc = "join.wait_fn" /\ phase = "ret"
     /\ \E k \in 1..Len(rx_log) :
           /\ rx_log[k].type = "Fail" \/ IsEvent(rx_log[k], ErrorOnPanaConnection)
           /\ \A j \in 1..(k - 1) : ~IsEvent(rx_log[j], EstablishedPanaConnection))
        => (~ret.ok /\ ret.kind = "CommandError")

\* an ERXUDP message whose payload is no packet of the property class the operation reads
Undecodable(m) ==
    /\ IsRxUdp(m)
    /\ ~EchonetPacket_parse(m.event.data, PropertyClass(op), little_endian).ok

\* C38: while wait_echonet_packet waits, reading an ERXUDP whose payload does not decode
\* as a packet of the requested property class leaves the wait as it is: the message goes
\* to message_buffer and the next line is read.  The wait ends only with a packet that
\* decodes, with the timeout, or with the command error of a FAIL.
C38_UndecodablePacketIgnored ==
    /\ [][(/\ pc = "wait_echonet_packet" /\ phase = "loop"
            /\ Len(rx_log') = Len(rx_log) + 1
            /\ Undecodable(rx_log'[Len(rx_log')]))
               => /\ pc' = pc /\ phase' = "loop"
                  /\ message_buffer' = Append(message_buffer, rx_log'[Len(rx_log')])]_vars
    /\ []((pc = "wait_echonet_packet" /\ phase = "ret")
             => IF ret.ok THEN IsRxUdp(ret.v) /\ ~Undecodable(ret.v)
                ELSE \/ ret.kind = "TimeoutError"
                     \/ /\ ret.kind = "CommandError"
                        /\ read_msgs[Len(read_msgs)].type = "Fail")

\* get_property_map got its reply after an ERXUDP that is no packet of the super class
\* (it carries EPC E7) had been read and left in message_buffer
C38_Witness ==
    /\ op = "get_property_map"
    /\ pc = "wait_echonet_packet" /\ phase = "ret"
    /\ ret.ok
    /\ ret.v.event.data = HexDecode(HexMapAT1)
    /\ message_buffer # <<>>
    /\ message_buffer[1] = SerialMessage_parse(<<LineRxUdp("0012", HexPowerT1)>>).value

\* C39: with a module that answers every SKSCAN with OK and later EVENT 22, with or
\* without complete EPANDESC blocks before them, scan comes to an end; while it runs it
\* has written at most the six SKSCAN of the durations 4 to 9, and it ends with a PanDesc
\* or with ScanError (or with the error of a write_line that failed).
C39_ScanTerminates ==
    /\ <>(pc \notin {"scan.wait_ok", "scan.wait_fn"})
    /\ [](pc \in {"scan.wait_ok", "scan.wait_fn"}
            => /\ Len(written) \in 1..6
               /\ written = [k \in 1..Len(written) |-> CmdScan(3 + k)])
    /\ [][(pc \in {"scan.wait_ok", "scan.wait_fn"}
             /\ pc' \notin {"scan.wait_ok", "scan.wait_fn"})
              => \/ pan'.some /\ IsPanDesc([type |-> "Event", event |-> pan'.v])
                 \/ result' = Err("ScanError", <<"pan not found">>)
                 \/ result' = Err("SerialError", <<"write failed">>)]_vars

\* scan has ended with ScanError after six SKSCAN, each answered with OK and EVENT 22
C39_Witness ==
    /\ pc = "idle"
    /\ result = Err("ScanError", <<"pan not found">>)
    /\ written = [k \in 1..6 |-> CmdScan(3 + k)]
    /\ rx_log = <<MsgOk, SerialMessage_parse(<<LineEvent("22")>>).value>>

\* the two calls were given the same pred and err_if: they are made at the same place, or
\* both are a wait_ok
SameClosures ==
    \/ runs.a.site = runs.b.site
    \/ {runs.a.site, runs.b.site} \subseteq {"set_password", "scan.wait_ok"}

=============================================================================
